---- MODULE Spec2Model ----
(***************************************************************************)
(* Conversational intake and confirmation orchestration of the rescue      *)
(* WhatsApp bot: the durable per-sender message window, the two dispatch   *)
(* orchestrators of the repository (handlers/MessageProcessorOrchestrator  *)
(* and the one kept in handlers/message_handler.py), the confirmation      *)
(* manager and the record handlers' validate / reconstruct / save steps.   *)
(*                                                                         *)
(* Strings that the code inspects character by character (reply texts and  *)
(* keywords) are sequences of one-character strings.                       *)
(***************************************************************************)
EXTENDS Integers, Sequences, FiniteSets, TLC

\* Python None, by the kind of value it stands in for: a string, an object
\* (dict, model instance) or an integer id (the code tests ids by truthiness).
NULL == "null"
None == [cls |-> "NoneType"]
NoId == 0

(***************************************************************************)
(* Bounds of the model.                                                    *)
(***************************************************************************)
NumWorkers == 2
MaxDispatch == 3
MaxFaults == 1
MaxRows == 2
MaxTime == 6
MaxTable == 3
MaxActive == 3
MaxHist == 3
MaxDeliveries == 2

Workers == 1..NumWorkers
Phones == {"p1"}
Senders == {"p1", "p2"}

(***************************************************************************)
(* Text primitives (Python str.lower, str.strip, startswith, in).          *)
(***************************************************************************)
LowerChar(c) ==
    CASE c = "S" -> "s"
      [] c = "I" -> "i"
      [] c = "N" -> "n"
      [] c = "O" -> "o"
      [] OTHER -> c

Lower(s) == [i \in 1..Len(s) |-> LowerChar(s[i])]

RECURSIVE LStrip(_)
LStrip(s) == IF s # <<>> /\ Head(s) = " " THEN LStrip(Tail(s)) ELSE s

RECURSIVE RStrip(_)
RStrip(s) ==
    IF s # <<>> /\ s[Len(s)] = " " THEN RStrip(SubSeq(s, 1, Len(s) - 1)) ELSE s

Strip(s) == RStrip(LStrip(s))

StartsWith(s, p) == Len(p) <= Len(s) /\ SubSeq(s, 1, Len(p)) = p

Contains(s, p) ==
    \E i \in 1..(Len(s) - Len(p) + 1) : SubSeq(s, i, i + Len(p) - 1) = p

(***************************************************************************)
(* Keyword lists of the confirmation protocol.                             *)
(***************************************************************************)
confirmacion ==
    << <<"s","í">>, <<"s","i">>, <<"y","e","s">>, <<"y","e","p">>,
       <<"o","k">>, <<"o","k","a","y">>,
       <<"c","o","n","f","i","r","m","a","r">>,
       <<"c","o","n","f","i","r","m">>,
       <<"a","d","e","l","a","n","t","e">>, <<"g","o">> >>

cancelacion ==
    << <<"n","o">>, <<"n","o","p","e">>,
       <<"c","a","n","c","e","l","a","r">>, <<"c","a","n","c","e","l">>,
       <<"n","o"," ","g","r","a","c","i","a","s">>,
       <<"n","o"," ","t","h","a","n","k","s">>,
       <<"a","b","o","r","t","a","r">> >>

InList(text, lst) == \E k \in 1..Len(lst) : text = lst[k]

StartsWithWord(text, lst) ==
    \E k \in 1..Len(lst) : StartsWith(text, lst[k] \o <<" ">>)

ContainsAny(text, lst) == \E k \in 1..Len(lst) : Contains(text, lst[k])

(***************************************************************************)
(* Inbound messages.  body is the text body of a text message (or the text *)
(* an interactive message carries); button is the button_reply id.         *)
(***************************************************************************)
Msg(type, body, button) ==
    [type |-> type, body |-> body, button |-> button,
     tipo_solicitud |-> NULL, detalles_parciales |-> None,
     campos_faltantes |-> <<>>]

TxtSi == <<"s","i">>
TxtNo == <<"n","o">>
TxtSiUpper == <<" ","S","I"," ","o","k">>
TxtSinNombre == <<"s","i","n"," ","n","o","m","b","r","e">>
TxtPerro == <<"p","e","r","r","o">>
TxtNoPadded == <<" ","N","O"," ">>
TxtNoOk == <<"n","o"," ","o","k">>
TxtAhNo == <<"a","h"," ","n","o">>
TxtAhSi == <<"a","h"," ","s","i">>

InboundMessages ==
    { Msg("text", TxtSi, NULL),
      Msg("text", TxtNo, NULL),
      Msg("text", TxtSiUpper, NULL),
      Msg("text", TxtSinNombre, NULL),
      Msg("text", TxtPerro, NULL),
      Msg("text", TxtNoPadded, NULL),
      Msg("text", TxtNoOk, NULL),
      Msg("text", TxtAhNo, NULL),
      Msg("text", TxtAhSi, NULL),
      Msg("interactive", TxtNo, "confirm_yes"),
      Msg("interactive", TxtSi, "confirm_no"),
      Msg("interactive", TxtSi, "other"),
      Msg("interactive", <<>>, "confirm_yes") }

\* the messages the dispatch runs are fed with
DispatchMessages ==
    { Msg("text", TxtSi, NULL),
      Msg("text", TxtNo, NULL),
      Msg("text", TxtPerro, NULL),
      Msg("text", TxtSinNombre, NULL),
      Msg("interactive", <<>>, "confirm_yes") }

\* Faulty variant: a detector that reads the text an interactive message carries
\* before it looks at the button id
_detect_user_response_TextFirst(message) ==
    LET text == Strip(Lower(message.body)) IN
    IF InList(text, confirmacion) \/ StartsWithWord(text, confirmacion)
        THEN "confirmed"
    ELSE IF InList(text, cancelacion) \/ StartsWithWord(text, cancelacion)
        THEN "cancelled"
    ELSE IF message.type = "interactive" /\ message.button = "confirm_yes"
        THEN "confirmed"
    ELSE IF message.type = "interactive" /\ message.button = "confirm_no"
        THEN "cancelled"
    ELSE NULL

(***************************************************************************)
(* ConfirmationManager._detect_user_response                               *)
(***************************************************************************)
_detect_user_response(message) ==
    IF message.type = "interactive" /\ message.button = "confirm_yes"
        THEN "confirmed"
    ELSE IF message.type = "interactive" /\ message.button = "confirm_no"
        THEN "cancelled"
    ELSE IF message.type = "text"
        THEN LET text == Strip(Lower(message.body)) IN
             IF InList(text, confirmacion) \/ StartsWithWord(text, confirmacion)
                 THEN "confirmed"
             ELSE IF InList(text, cancelacion) \/ StartsWithWord(text, cancelacion)
                 THEN "cancelled"
             ELSE NULL
    ELSE NULL

(***************************************************************************)
(* Record types and handler registries of the two orchestrators.           *)
(***************************************************************************)
handlers ==
    {"NUEVO_RESCATE", "GASTO", "VETERINARIA", "CAMBIO_ESTADO", "CONSULTA",
     "TRACKING_MOVIMIENTO"}

legacy_handlers ==
    {"NUEVO_RESCATE", "GASTO", "VISITA_VET", "CAMBIO_ESTADO", "CONSULTA"}

(***************************************************************************)
(* Typed field bundles (pydantic details classes).  cls is the class of    *)
(* the object; the serialised dictionary is the same record without it.    *)
(***************************************************************************)
CambioEstadoInfo == [ubicacion_id |-> 1, estado_id |-> 2, persona |-> "ana",
                     tipo_relacion_id |-> 4]

NuevoRescateDetails(nombre, color, salud) ==
    [cls |-> "NuevoRescateDetails", nombre |-> nombre, tipo_animal |-> "perro",
     edad |-> "6 meses", color_de_pelo |-> color,
     condicion_de_salud_inicial |-> salud, ubicacion |-> "ezeiza",
     cambio_estado |-> CambioEstadoInfo]

CambioEstadoDetails(nombre, estado_id, animal_id) ==
    [cls |-> "CambioEstadoDetails", nombre |-> nombre, ubicacion_id |-> 4,
     estado_id |-> estado_id, persona |-> "ana", tipo_relacion_id |-> 1,
     animal_id |-> animal_id]

\* A number the extraction may leave out: Num(v) or None.  Python tests
\* amounts and category ids by truthiness (`not item.monto`).
Num(v) == [num |-> v]

Truthy(x) == x # None /\ x # Num(0)

GastoItem(monto, categoria_id, descripcion) ==
    [monto |-> monto, categoria_id |-> categoria_id,
     descripcion |-> descripcion, nombre_animal |-> NULL]

GastoDetails(items) == [cls |-> "GastoDetails", items |-> items]

VisitaVetDetails(nombre, veterinario) ==
    [cls |-> "VisitaVetDetails", nombre |-> nombre,
     veterinario |-> veterinario, fecha |-> NULL, diagnostico |-> NULL,
     tratamiento |-> NULL, proxima_cita |-> NULL,
     persona_acompanante |-> NULL]

\* What the extraction capability can hand back for one record type:
\* None is a failed or malformed extraction.
ExtractOutcomes(tipo) ==
    CASE tipo = "NUEVO_RESCATE" ->
            { None,
              NuevoRescateDetails("Luna", <<"negro">>, "buena"),
              NuevoRescateDetails("Luna", <<>>, NULL),
              NuevoRescateDetails("Rocky", <<>>, NULL) }
      [] tipo = "CAMBIO_ESTADO" ->
            { None,
              CambioEstadoDetails("rocky", 5, NoId),
              CambioEstadoDetails("rocky", NoId, NoId) }
      [] tipo = "VISITA_VET" ->
            { None, VisitaVetDetails("Rocky", NULL) }
      [] OTHER -> { None }

ExtractAll ==
    UNION {ExtractOutcomes(tipo) :
             tipo \in {"NUEVO_RESCATE", "CAMBIO_ESTADO", "VISITA_VET"}}

DetailsClass(tipo) ==
    CASE tipo = "NUEVO_RESCATE" -> "NuevoRescateDetails"
      [] tipo = "CAMBIO_ESTADO" -> "CambioEstadoDetails"
      [] tipo = "GASTO" -> "GastoDetails"
      [] tipo = "VISITA_VET" -> "VisitaVetDetails"
      [] OTHER -> "OtherDetails"

IsInstance(detalles, cls) == detalles.cls = cls

HandlerResult(ok, detalles, campos_faltantes) ==
    [ok |-> ok, detalles |-> detalles, campos_faltantes |-> campos_faltantes]

(***************************************************************************)
(* Entity store lookups (PostgresService).  animales is a sequence of      *)
(* rows [id, nombre, activo] in insertion order.                           *)
(***************************************************************************)
NameKey(n) ==
    CASE n = "Rocky" -> "rocky"
      [] n = "Luna" -> "luna"
      [] OTHER -> n

RECURSIVE FirstMatch(_, _, _)
FirstMatch(rows, i, nombre) ==
    IF i > Len(rows) THEN NoId
    ELSE IF NameKey(rows[i].nombre) = NameKey(nombre) THEN rows[i].id
    ELSE FirstMatch(rows, i + 1, nombre)

\* SELECT id FROM animales WHERE lower(nombre) = lower(%s) LIMIT 1;
\* a failed query is swallowed and answers None.
check_animal_name_exists(rows, nombre, db_ok) ==
    IF db_ok THEN FirstMatch(rows, 1, nombre) ELSE NoId

RECURSIVE LastActiveMatch(_, _, _)
LastActiveMatch(rows, i, nombre) ==
    IF i < 1 THEN NoId
    ELSE IF NameKey(rows[i].nombre) = NameKey(nombre) /\ rows[i].activo
        THEN rows[i].id
    ELSE LastActiveMatch(rows, i - 1, nombre)

\* Faulty variant: a lookup that takes inactive animals too
get_animal_by_name_AnyStatus(rows, nombre, db_ok) ==
    IF db_ok
        THEN LET hits == { i \in 1..Len(rows) :
                             NameKey(rows[i].nombre) = NameKey(nombre) }
             IN IF hits = {} THEN NoId
                ELSE rows[CHOOSE i \in hits : \A j \in hits : j <= i].id
    ELSE NoId

\* ... AND activo = true ORDER BY fecha DESC LIMIT 1; a store error is
\* logged and answered with None
get_animal_by_name(rows, nombre, db_ok) ==
    IF db_ok THEN LastActiveMatch(rows, Len(rows), nombre) ELSE NoId

(***************************************************************************)
(* validate of the record handlers.                                        *)
(***************************************************************************)
\* Faulty variant: a test that takes only None for missing
FieldMissing_NullOnly(detalles, k) ==
    CASE k = "color_de_pelo" -> FALSE
      [] k = "cambio_estado" -> detalles[k] = None
      [] OTHER -> detalles[k] = NULL

\* v is None or (isinstance(v, (list, str)) and not v), by the field's type
FieldMissing(detalles, k) ==
    CASE k = "color_de_pelo" -> detalles[k] = <<>>
      [] k = "cambio_estado" -> detalles[k] = None
      [] OTHER -> detalles[k] \in {NULL, ""}

NuevoRescateRequired ==
    << "nombre", "tipo_animal", "edad", "color_de_pelo",
       "condicion_de_salud_inicial", "ubicacion", "cambio_estado" >>

\* Faulty variant: a validation that looks for missing fields first and
\* checks the name against the store only for a complete bundle
NuevoRescateValidate_MissingFirst(result, rows, db_ok) ==
    IF ~IsInstance(result.detalles, "NuevoRescateDetails")
        THEN HandlerResult(FALSE, result.detalles, <<"detalles_invalidos">>)
    ELSE LET IsMissing(k) == FieldMissing(result.detalles, k)
             missing == SelectSeq(NuevoRescateRequired, IsMissing)
         IN IF missing # <<>>
                THEN HandlerResult(FALSE, result.detalles, missing)
            ELSE IF check_animal_name_exists(rows, result.detalles.nombre,
                                             db_ok) # NoId
                THEN HandlerResult(FALSE, result.detalles,
                                   <<"nombre_duplicado">>)
            ELSE HandlerResult(TRUE, result.detalles, <<>>)

NuevoRescateValidate(result, rows, db_ok) ==
    IF ~IsInstance(result.detalles, "NuevoRescateDetails")
        THEN HandlerResult(FALSE, result.detalles, <<"detalles_invalidos">>)
    ELSE IF result.detalles.nombre \notin {NULL, ""}
            /\ check_animal_name_exists(rows, result.detalles.nombre, db_ok) # NoId
        THEN HandlerResult(FALSE, result.detalles, <<"nombre_duplicado">>)
    ELSE LET IsMissing(k) == FieldMissing(result.detalles, k)
             missing == SelectSeq(NuevoRescateRequired, IsMissing)
         IN HandlerResult(missing = <<>>, result.detalles, missing)

\* f"animal_no_encontrado: {result.detalles.nombre}"
AnimalNoEncontrado(nombre) ==
    CASE nombre = "Rocky" -> "animal_no_encontrado: Rocky"
      [] nombre = "rocky" -> "animal_no_encontrado: rocky"
      [] nombre = "Luna" -> "animal_no_encontrado: Luna"
      [] nombre = "" -> "animal_no_encontrado: "
      [] OTHER -> "animal_no_encontrado: <nombre>"

\* get_animal_by_name catches the store's errors itself, so the except
\* branch that sets error_busqueda_animal is never taken on a store error
CambioEstadoValidate(result, rows, db_ok) ==
    IF ~IsInstance(result.detalles, "CambioEstadoDetails")
        THEN HandlerResult(FALSE, result.detalles, <<"detalles_invalidos">>)
    ELSE LET IsMissing(k) == IF k = "nombre" THEN result.detalles[k] = NULL
                              ELSE result.detalles[k] = NoId
             missing == SelectSeq(<<"nombre", "estado_id">>, IsMissing)
         IN IF missing # <<>>
                THEN HandlerResult(FALSE, result.detalles, missing)
            ELSE LET animal_id ==
                         get_animal_by_name(rows, result.detalles.nombre, db_ok)
                 IN IF animal_id = NoId
                        THEN HandlerResult(FALSE, result.detalles,
                                           <<AnimalNoEncontrado(
                                                 result.detalles.nombre)>>)
                    ELSE HandlerResult(
                             TRUE,
                             [result.detalles EXCEPT !.animal_id = animal_id],
                             result.campos_faltantes)

\* the marker of the first incomplete item: item_<i>_incompleto with the
\* item's 0-based index
ItemIncompleto(i) ==
    CASE i = 1 -> "item_0_incompleto"
      [] i = 2 -> "item_1_incompleto"
      [] OTHER -> "item_2_incompleto"

RECURSIVE FirstIncomplete(_, _)
FirstIncomplete(items, i) ==
    IF i > Len(items) THEN 0
    ELSE IF ~Truthy(items[i].monto) \/ ~Truthy(items[i].categoria_id)
            \/ items[i].descripcion \in {NULL, ""}
        THEN i
    ELSE FirstIncomplete(items, i + 1)

GastoValidate(result) ==
    IF ~IsInstance(result.detalles, "GastoDetails")
        THEN HandlerResult(FALSE, result.detalles, <<"detalles_invalidos">>)
    ELSE IF result.detalles.items = <<>>
        THEN HandlerResult(FALSE, result.detalles, <<"items">>)
    ELSE LET i == FirstIncomplete(result.detalles.items, 1) IN
         IF i # 0
            THEN HandlerResult(FALSE, result.detalles, <<ItemIncompleto(i)>>)
         ELSE HandlerResult(TRUE, result.detalles, <<>>)

\* VisitaVetHandler.validate: no required field
VisitaVetValidate(result) ==
    IF ~IsInstance(result.detalles, "VisitaVetDetails")
        THEN HandlerResult(FALSE, result.detalles, <<"detalles_invalidos">>)
    ELSE HandlerResult(TRUE, result.detalles, <<>>)

\* the details objects of the two handlers below, by the fields their
\* validate reads
TrackingMovimientoDetails(tipo, destino, animales) ==
    [cls |-> "TrackingMovimientoDetails", tipo |-> tipo, destino |-> destino,
     animales |-> animales]

VeterinariaDetails(items) == [cls |-> "VeterinariaDetails", items |-> items]

\* TrackingMovimientoHandler.validate: appends to the list the result comes
\* with
TrackingMovimientoValidate(result) ==
    IF ~IsInstance(result.detalles, "TrackingMovimientoDetails")
        THEN HandlerResult(FALSE, result.detalles, <<"detalles_invalidos">>)
    ELSE LET datos == result.detalles
             c1 == IF datos.tipo \notin {"salida", "regreso"}
                       THEN Append(result.campos_faltantes, "tipo")
                   ELSE result.campos_faltantes
             c2 == IF datos.destino \notin {"parque", "veterinaria", "compras",
                                            "entrega_adopcion"}
                       THEN Append(c1, "destino")
                   ELSE c1
             c3 == IF datos.animales = <<>> THEN Append(c2, "animales") ELSE c2
         IN HandlerResult(c3 = <<>>, datos, c3)

\* VeterinariaHandler.validate
VeterinariaValidate(result) ==
    IF ~IsInstance(result.detalles, "VeterinariaDetails")
        THEN HandlerResult(FALSE, result.detalles, <<"detalles_invalidos">>)
    ELSE IF FirstIncomplete(result.detalles.items, 1) # 0
        THEN HandlerResult(FALSE, result.detalles,
                           Append(result.campos_faltantes, "item_incompleto"))
    ELSE HandlerResult(TRUE, result.detalles, <<>>)

validate(tipo, result, rows, db_ok) ==
    CASE tipo = "NUEVO_RESCATE" -> NuevoRescateValidate(result, rows, db_ok)
      [] tipo = "CAMBIO_ESTADO" -> CambioEstadoValidate(result, rows, db_ok)
      [] tipo = "GASTO" -> GastoValidate(result)
      [] tipo = "VISITA_VET" -> VisitaVetValidate(result)
      [] OTHER -> HandlerResult(FALSE, result.detalles, <<"detalles_invalidos">>)

\* handler.validate(result) of the handler registered for tipo
HandlerValidate(tipo, result, rows, db_ok) ==
    CASE tipo = "TRACKING_MOVIMIENTO" -> TrackingMovimientoValidate(result)
      [] tipo = "VETERINARIA" -> VeterinariaValidate(result)
      [] OTHER -> validate(tipo, result, rows, db_ok)

(***************************************************************************)
(* Serialisation of a bundle into the generic stored dictionary            *)
(* (detalles.dict() then json.dumps / json.loads) and back.                *)
(***************************************************************************)
EmptyDict == [k \in {} |-> NULL]

\* result.detalles.dict() when the object has one, else {} (None is no dict)
ToDict(detalles) ==
    IF detalles = None THEN EmptyDict
    ELSE [k \in (DOMAIN detalles) \ {"cls"} |-> detalles[k]]

Fields(cls) ==
    CASE cls = "NuevoRescateDetails" ->
            (DOMAIN NuevoRescateDetails(NULL, <<>>, NULL)) \ {"cls"}
      [] cls = "CambioEstadoDetails" ->
            (DOMAIN CambioEstadoDetails(NULL, NoId, NoId)) \ {"cls"}
      [] cls = "GastoDetails" -> (DOMAIN GastoDetails(<<>>)) \ {"cls"}
      [] cls = "VisitaVetDetails" ->
            (DOMAIN VisitaVetDetails(NULL, NULL)) \ {"cls"}
      [] OTHER -> {}

\* fields declared without Optional[...] and without a default
RequiredFields(cls) ==
    CASE cls = "NuevoRescateDetails" ->
            {"tipo_animal", "edad", "color_de_pelo",
             "condicion_de_salud_inicial", "ubicacion", "cambio_estado"}
      [] cls = "CambioEstadoDetails" ->
            {"ubicacion_id", "estado_id", "persona", "tipo_relacion_id"}
      [] cls = "GastoDetails" -> {"items"}
      [] OTHER -> {}

IntFields == {"estado_id", "animal_id", "ubicacion_id", "tipo_relacion_id"}

IsNoneField(d, k) ==
    CASE k \in IntFields -> d[k] = NoId
      [] k \in {"color_de_pelo", "items"} -> FALSE
      [] k = "cambio_estado" -> d[k] = None
      [] OTHER -> d[k] = NULL

\* the default an Optional field takes when the dictionary leaves it out
FieldDefault(k) == IF k \in IntFields THEN NoId ELSE NULL

\* Faulty variant: a field the dictionary lacks is filled with a default
\* instead of being rejected.
FromDict_AssumesSuccess(cls, d) ==
    [k \in Fields(cls) \cup {"cls"} |->
        IF k = "cls" THEN cls
        ELSE IF k \in DOMAIN d THEN d[k]
        ELSE IF k = "color_de_pelo" THEN <<>>
        ELSE IF k = "cambio_estado" THEN None
        ELSE FieldDefault(k)]

\* details_class(**detalles_parciales): None stands for the raised
\* validation error.  A required field that is absent or null is rejected,
\* an absent optional field takes its default, an unknown key is ignored.
FromDict(cls, d) ==
    IF Fields(cls) = {} THEN None
    ELSE IF \E k \in RequiredFields(cls) :
                k \notin DOMAIN d \/ IsNoneField(d, k)
        THEN None
    ELSE [k \in Fields(cls) \cup {"cls"} |->
            IF k = "cls" THEN cls
            ELSE IF k \in DOMAIN d THEN d[k]
            ELSE FieldDefault(k)]

\* <Handler>.reconstruct_result; VisitaVetHandler defines none, so the call
\* on it raises and nothing is rebuilt
reconstruct_result(tipo, detalles_parciales, rows, db_ok) ==
    LET detalles == IF tipo \in {"NUEVO_RESCATE", "CAMBIO_ESTADO", "GASTO"}
                    THEN FromDict(DetailsClass(tipo), detalles_parciales)
                    ELSE None IN
    IF detalles = None
        THEN HandlerResult(FALSE, None, <<"Error al reconstruir datos">>)
    ELSE validate(tipo, HandlerResult(FALSE, detalles, <<>>), rows, db_ok)

\* ConfirmationManager._save_pending_confirmation: the stored record
PendingRecord(tipo, result, timestamp) ==
    [type |-> "pending_confirmation", body |-> <<>>, button |-> NULL,
     tipo_solicitud |-> tipo, detalles_parciales |-> ToDict(result.detalles),
     campos_faltantes |-> <<>>, timestamp |-> timestamp]

\* detalles.dict(exclude_none=True)
ToDictExcludeNone(detalles) ==
    LET d == ToDict(detalles) IN
    [k \in {f \in DOMAIN d : ~IsNoneField(d, f)} |-> d[k]]

\* _add_incomplete_request_to_context: the stored record
IncompleteRecord(tipo, result) ==
    [type |-> "incomplete_request", body |-> <<>>, button |-> NULL,
     tipo_solicitud |-> tipo,
     detalles_parciales |-> ToDictExcludeNone(result.detalles),
     campos_faltantes |-> result.campos_faltantes]

(***************************************************************************)
(* ConfirmationManager: pending lookup and status.                         *)
(***************************************************************************)
RECURSIVE LastOfType(_, _, _)
LastOfType(history, i, type) ==
    IF i < 1 THEN None
    ELSE IF history[i].type = type THEN history[i]
    ELSE LastOfType(history, i - 1, type)

_get_pending_request(phone_history) ==
    LastOfType(phone_history, Len(phone_history), "pending_confirmation")

NoStatus == [signal |-> NULL, tipo |-> NULL, detalles_parciales |-> None]

check_confirmation_status(current_message, phone_history) ==
    LET pending == _get_pending_request(phone_history)
        response == _detect_user_response(current_message)
    IN IF pending = None THEN NoStatus
       ELSE IF response \in {"confirmed", "cancelled"}
           THEN [signal |-> response, tipo |-> pending.tipo_solicitud,
                 detalles_parciales |-> pending.detalles_parciales]
       ELSE NoStatus

(***************************************************************************)
(* message_handler.py: MessageProcessorOrchestrator._check_pending_        *)
(* confirmation (the orchestrator kept next to the handler base class).    *)
(***************************************************************************)
_check_pending_confirmation(current_message, phone_info) ==
    LET pending_incomplete_request ==
            LastOfType(phone_info, Len(phone_info), "incomplete_request")
        current_text ==
            IF current_message.type = "text" THEN Lower(current_message.body)
            ELSE <<>>
        is_confirm_button == current_message.type = "interactive"
                             /\ current_message.button = "confirm_yes"
        is_cancel_button == current_message.type = "interactive"
                            /\ current_message.button = "confirm_no"
        confirmed == is_confirm_button \/ ContainsAny(current_text, confirmacion)
        cancelled == is_cancel_button \/ ContainsAny(current_text, cancelacion)
    IN IF phone_info = <<>> \/ pending_incomplete_request = None THEN NoStatus
       ELSE IF ~confirmed /\ ~cancelled THEN NoStatus
       ELSE [signal |-> IF confirmed THEN "confirmed" ELSE "cancelled",
             tipo |-> pending_incomplete_request.tipo_solicitud,
             detalles_parciales |-> pending_incomplete_request.detalles_parciales]

(***************************************************************************)
(* State.                                                                  *)
(*   orchestrator which MessageProcessorOrchestrator class the deployment  *)
(*               instantiates                                              *)
(*   window      whatsapp_messages rows per sender, oldest first           *)
(*   animales    rows of table animales                                    *)
(*   eventos     rows of table eventos                                     *)
(*   wk          the dispatch each worker is running: its position, the    *)
(*               inbound message, the history it read, what it has called  *)
(*               and what it has replied                                   *)
(*   dispatched  number of dispatches started                              *)
(*   faults      number of store or capability calls that have failed      *)
(*   persist_log every save_to_db invocation, in order (history variable)  *)
(*   fn          the operation under test in SpecFn, where single          *)
(*               operations are applied to inputs drawn by the initial     *)
(*               state; unused by the dispatch specifications              *)
(***************************************************************************)
VARIABLES orchestrator, window, animales, eventos, wk, dispatched, faults,
          persist_log, fn

vars == <<orchestrator, window, animales, eventos, wk, dispatched, faults,
          persist_log, fn>>

Orchestrators == {"current", "legacy"}

Idle ==
    [pc |-> "idle", n |-> 0, phone |-> NULL, msg |-> None,
     history |-> <<>>, tipos |-> <<>>, tipo |-> NULL,
     status |-> NoStatus, result |-> HandlerResult(FALSE, None, <<>>),
     replies |-> <<>>, calls |-> {}]

FnIdle == [stage |-> "none"]

RockyRow == [id |-> 1, nombre |-> "Rocky", activo |-> TRUE]

Init ==
    /\ orchestrator \in Orchestrators
    /\ window = [p \in Phones |-> <<>>]
    /\ animales = <<RockyRow>>
    /\ eventos = <<>>
    /\ wk = [w \in Workers |-> Idle]
    /\ dispatched = 0
    /\ faults = 0
    /\ persist_log = <<>>
    /\ fn = FnIdle

\* A call to the store or to a capability may fail while the fault budget
\* lasts; Cost counts the failed calls of a step.
Cost(ok) == IF ok THEN 0 ELSE 1

Fail(cost) == faults + cost <= MaxFaults /\ faults' = faults + cost

(***************************************************************************)
(* PostgresService primitives on the message table.                        *)
(***************************************************************************)
\* insert_record into whatsapp_messages: a failed insert is swallowed
insert_message(win, phone, record, db_ok) ==
    IF db_ok THEN [win EXCEPT ![phone] = Append(@, record)] ELSE win

\* MessageProcessorOrchestrator._add_to_conversation: a plain insert of the
\* message; its outcome is not returned
_add_to_conversation(win, phone, message_data, db_ok) ==
    insert_message(win, phone, message_data, db_ok)

\* Faulty variant: a delete that reports success and removes nothing
delete_records_optimized_KeepsRows(win, phone, db_ok) == win

\* Faulty variant: DELETE FROM whatsapp_messages without the phone condition
delete_records_optimized_AllSenders(win, phone, db_ok) ==
    IF db_ok THEN [p \in DOMAIN win |-> <<>>] ELSE win

\* delete_records_optimized(phone, "whatsapp_messages")
delete_records_optimized(win, phone, db_ok) ==
    IF db_ok THEN [win EXCEPT ![phone] = <<>>] ELSE win

\* The row _add_to_conversation stores for an inbound message.  Only the
\* classifier and the extractor read the text of a stored message, and
\* their answers are left open, so the row keeps the message's type only.
Stored(msg) == [msg EXCEPT !.body = <<>>, !.button = NULL]

Reply(w, kind) == [wk[w] EXCEPT !.replies = Append(@, kind)]

(***************************************************************************)
(* save_to_db of the record handlers: the rows after the call and the      *)
(* value returned.  a_ok / e_ok say whether the insert into animales /     *)
(* eventos succeeds; the new animal's random id is taken to be fresh.      *)
(***************************************************************************)
NuevoRescateSave(result, an, ev, a_ok, e_ok) ==
    IF ~IsInstance(result.detalles, "NuevoRescateDetails")
        THEN [animales |-> an, eventos |-> ev, ok |-> FALSE]
    ELSE IF ~a_ok THEN [animales |-> an, eventos |-> ev, ok |-> FALSE]
    ELSE LET datos == result.detalles
             id == Len(an) + 1
             an2 == Append(an, [id |-> id, nombre |-> datos.nombre,
                                activo |-> TRUE])
             estado == IF datos.cambio_estado = None THEN NoId
                       ELSE datos.cambio_estado.estado_id
             ev2 == IF e_ok
                    THEN Append(ev, [animal_id |-> id, estado_id |-> estado])
                    ELSE ev
         IN [animales |-> an2, eventos |-> ev2, ok |-> e_ok]

CambioEstadoSave(result, an, ev, a_ok, e_ok) ==
    IF ~IsInstance(result.detalles, "CambioEstadoDetails")
        THEN [animales |-> an, eventos |-> ev, ok |-> FALSE]
    ELSE LET datos == result.detalles
             ev2 == IF e_ok
                    THEN Append(ev, [animal_id |-> datos.animal_id,
                                     estado_id |-> datos.estado_id])
                    ELSE ev
         IN [animales |-> an, eventos |-> ev2, ok |-> e_ok]

save_to_db(tipo, result, an, ev, a_ok, e_ok) ==
    CASE tipo = "NUEVO_RESCATE" -> NuevoRescateSave(result, an, ev, a_ok, e_ok)
      [] tipo = "CAMBIO_ESTADO" -> CambioEstadoSave(result, an, ev, a_ok, e_ok)
      [] OTHER -> [animales |-> an, eventos |-> ev, ok |-> FALSE]

(***************************************************************************)
(* GastoHandler: the expense rows (gastos) and their allocation shares     *)
(* (gasto_animal).  Animal rows here carry refugio, which says that the    *)
(* animal's latest event has it in the refuge.  An amount divided across   *)
(* animals is kept as the exact quotient num / den.                        *)
(***************************************************************************)
AnimalRow(id, nombre, activo, refugio) ==
    [id |-> id, nombre |-> nombre, activo |-> activo, refugio |-> refugio]

Quot(num, den) == [num |-> num, den |-> den]

Share(gasto_id, animal_id, monto) ==
    [gasto_id |-> gasto_id, animal_id |-> animal_id, monto |-> monto]

\* categoria_id in [2, 3]: 2 = Alimento, 3 = Piedritas
SharedCategories == {Num(2), Num(3)}

\* The statement of get_animales_activos_en_refugio does not close the
\* parenthesis of `e.estado_id in(2,3`, so cur.execute raises on every call
\* and the except clause answers the empty list, whatever the tables hold.
get_animales_activos_en_refugio(an) == <<>>

\* get_last_inserted_id("gastos", "gasto_id") asks currval on a connection
\* of its own.  currval is defined per database session: on a fresh
\* session it raises and the method answers None; lid_ok is whether the
\* session happens to know the sequence (a pooled connection).
get_last_inserted_id(gastos, lid_ok) == IF lid_ok THEN Len(gastos) ELSE NoId

\* for animal in animales_activos: one share each; a failed insert is
\* logged, clears all_ok, and the loop goes on
RECURSIVE InsertShares(_, _, _, _, _, _)
InsertShares(shares, gasto_id, activos, i, monto, ins_ok) ==
    IF i > Len(activos) THEN [shares |-> shares, ok |-> TRUE]
    ELSE LET rest == InsertShares(
                         IF ins_ok[i]
                         THEN Append(shares,
                                  Share(gasto_id, activos[i].id, monto))
                         ELSE shares,
                         gasto_id, activos, i + 1, monto, ins_ok)
         IN [shares |-> rest.shares, ok |-> rest.ok /\ ins_ok[i]]

\* Faulty variant: the general branch charges the expense to animal 1
_allocate_gasto_to_animals_ChargesGeneral(shares, gasto_id, item, an, name_ok, ins_ok) ==
    IF item.nombre_animal \notin {NULL, ""}
        THEN LET animal_id ==
                     check_animal_name_exists(an, item.nombre_animal, name_ok)
             IN IF animal_id = NoId THEN [shares |-> shares, ok |-> FALSE]
                ELSE IF ins_ok[1]
                    THEN [shares |-> Append(shares,
                              Share(gasto_id, animal_id,
                                    Quot(item.monto.num, 1))),
                          ok |-> TRUE]
                ELSE [shares |-> shares, ok |-> FALSE]
    ELSE IF item.categoria_id \in SharedCategories
        THEN [shares |-> shares, ok |-> FALSE]
    ELSE [shares |-> Append(shares, Share(gasto_id, 1,
                                          Quot(item.monto.num, 1))),
          ok |-> TRUE]

\* GastoHandler._allocate_gasto_to_animals: the shares after the call and
\* the value returned
_allocate_gasto_to_animals(shares, gasto_id, item, an, name_ok, ins_ok) ==
    IF item.nombre_animal \notin {NULL, ""}
        THEN LET animal_id ==
                     check_animal_name_exists(an, item.nombre_animal, name_ok)
             IN IF animal_id = NoId THEN [shares |-> shares, ok |-> FALSE]
                ELSE IF ins_ok[1]
                    THEN [shares |-> Append(shares,
                              Share(gasto_id, animal_id,
                                    Quot(item.monto.num, 1))),
                          ok |-> TRUE]
                ELSE [shares |-> shares, ok |-> FALSE]
    ELSE IF item.categoria_id \in SharedCategories
        THEN LET animales_activos == get_animales_activos_en_refugio(an) IN
             IF animales_activos = <<>>
                 THEN [shares |-> shares, ok |-> FALSE]
             ELSE InsertShares(shares, gasto_id, animales_activos, 1,
                               Quot(item.monto.num, Len(animales_activos)),
                               ins_ok)
    ELSE [shares |-> shares, ok |-> TRUE]

\* for item in datos.items of GastoHandler.save_to_db: a failed insert of
\* the expense row clears all_ok; an expense whose id cannot be read back is
\* left unallocated; the value _allocate_gasto_to_animals returns is dropped
RECURSIVE SaveItems(_, _, _, _, _, _, _, _, _)
SaveItems(items, i, gastos, shares, an, g_ok, lid_ok, name_ok, ins_ok) ==
    IF i > Len(items)
        THEN [gastos |-> gastos, shares |-> shares, ok |-> TRUE]
    ELSE IF ~g_ok[i]
        THEN LET rest == SaveItems(items, i + 1, gastos, shares, an, g_ok,
                                   lid_ok, name_ok, ins_ok)
             IN [rest EXCEPT !.ok = FALSE]
    ELSE LET gastos2 == Append(gastos, [gasto_id |-> Len(gastos) + 1,
                                        categoria_id |-> items[i].categoria_id,
                                        monto_total |-> items[i].monto])
             gasto_id == get_last_inserted_id(gastos2, lid_ok)
             shares2 == IF gasto_id = NoId THEN shares
                        ELSE _allocate_gasto_to_animals(shares, gasto_id,
                                 items[i], an, name_ok, ins_ok).shares
         IN SaveItems(items, i + 1, gastos2, shares2, an, g_ok, lid_ok,
                      name_ok, ins_ok)

\* GastoHandler.save_to_db
GastoSave(result, gastos, shares, an, g_ok, lid_ok, name_ok, ins_ok) ==
    IF ~IsInstance(result.detalles, "GastoDetails")
        THEN [gastos |-> gastos, shares |-> shares, ok |-> FALSE]
    ELSE SaveItems(result.detalles.items, 1, gastos, shares, an, g_ok,
                   lid_ok, name_ok, ins_ok)

\* one entry of persist_log: the dispatch that invoked save_to_db, what it
\* passed, what the call answered, and what the dispatch had found pending
LogEntry(w, tipo, detalles, ok, raised) ==
    [n |-> wk[w].n, tipo |-> tipo,
     detalles |-> detalles, ok |-> ok, raised |-> raised,
     pending |-> _get_pending_request(wk[w].history),
     signal |-> wk[w].status.signal,
     resolved |-> wk[w].status.detalles_parciales,
     result_ok |-> wk[w].result.ok]

(***************************************************************************)
(* What the classifier capability can answer.                              *)
(***************************************************************************)
ClassifierTipos ==
    { <<>>, <<"NUEVO_RESCATE">>, <<"CAMBIO_ESTADO">>,
      <<"NUEVO_RESCATE", "CAMBIO_ESTADO">>, <<"CONSULTA">>, <<"OTRO">> }

ClassifierTipo ==
    {NULL, "NUEVO_RESCATE", "CAMBIO_ESTADO", "VISITA_VET", "CONSULTA", "OTRO"}

(***************************************************************************)
(* Both orchestrators: process_message begins by _add_to_conversation.     *)
(* Workers are interchangeable: a dispatch takes the lowest idle one.      *)
(***************************************************************************)
Receive(w, phone, msg, db_ok) ==
    /\ wk[w].pc = "idle"
    /\ \A v \in Workers : v < w => wk[v].pc # "idle"
    /\ dispatched < MaxDispatch
    /\ dispatched' = dispatched + 1
    /\ Fail(Cost(db_ok))
    /\ window' = insert_message(window, phone, Stored(msg), db_ok)
    /\ wk' = [wk EXCEPT ![w] =
                [Idle EXCEPT !.pc = IF orchestrator = "current" THEN "read"
                                    ELSE "l_check",
                             !.n = dispatched + 1,
                             !.phone = phone, !.msg = msg]]
    /\ UNCHANGED <<fn, orchestrator, animales, eventos, persist_log>>

\* faulty variant: the worker object keeps what the dispatch read and decided
\* (its window, its confirmation status, its result) after the dispatch ends
Finish_KeepsDispatch(w) ==
    /\ wk[w].pc = "done"
    /\ wk' = [wk EXCEPT ![w] = [@ EXCEPT !.pc = "idle"]]
    /\ UNCHANGED <<fn, orchestrator, window, animales, eventos, dispatched, faults, persist_log>>

Finish(w) ==
    /\ wk[w].pc = "done"
    /\ wk' = [wk EXCEPT ![w] = Idle]
    /\ UNCHANGED <<fn, orchestrator, window, animales, eventos, dispatched, faults, persist_log>>

(***************************************************************************)
(* handlers/MessageProcessorOrchestrator.py: process_message               *)
(***************************************************************************)
\* search_phone_in_whatsapp_sheet; no rows or a failed query answer None,
\* on which build_raw_content raises and the dispatch replies with an error
ReadHistory(w, db_ok) ==
    /\ wk[w].pc = "read"
    /\ Fail(Cost(db_ok))
    /\ LET rows == IF db_ok THEN window[wk[w].phone] ELSE <<>> IN
       wk' = [wk EXCEPT ![w] =
                IF rows = <<>>
                    THEN [Reply(w, "error") EXCEPT !.pc = "done"]
                ELSE [@ EXCEPT !.pc = "classify", !.history = rows]]
    /\ UNCHANGED <<fn, orchestrator, window, animales, eventos, dispatched, persist_log>>

\* Faulty variant: an empty classification falls through to the handler
\* loop instead of being answered
Classify_EmptyFallsThrough(w, tipos, ai_ok) ==
    /\ wk[w].pc = "classify"
    /\ Fail(Cost(ai_ok))
    /\ wk' = [wk EXCEPT ![w] =
                IF ~ai_ok
                    THEN [Reply(w, "error") EXCEPT
                              !.pc = "done", !.calls = @ \cup {"classify"}]
                ELSE [@ EXCEPT !.pc = "next", !.tipos = tipos,
                               !.calls = @ \cup {"classify"}]]
    /\ UNCHANGED <<fn, orchestrator, window, animales, eventos, dispatched, persist_log>>

\* tipos = await self.ai_service.classify(raw), always before any handler
Classify(w, tipos, ai_ok) ==
    /\ wk[w].pc = "classify"
    /\ Fail(Cost(ai_ok))
    /\ wk' = [wk EXCEPT ![w] =
                IF ~ai_ok
                    THEN [Reply(w, "error") EXCEPT
                              !.pc = "done", !.calls = @ \cup {"classify"}]
                ELSE IF tipos = <<>>
                    THEN [Reply(w, "no_type") EXCEPT
                              !.pc = "done", !.calls = @ \cup {"classify"}]
                ELSE [@ EXCEPT !.pc = "next", !.tipos = tipos,
                               !.calls = @ \cup {"classify"}]]
    /\ UNCHANGED <<fn, orchestrator, window, animales, eventos, dispatched, persist_log>>

\* for tipo in tipos: unregistered types are skipped, the others are handed
\* to handler.handle_message_flow(phone, raw, tipo_upper, phone_history)
NextTipo(w) ==
    /\ wk[w].pc = "next"
    /\ LET tipos == wk[w].tipos IN
       wk' = [wk EXCEPT ![w] =
                IF tipos = <<>> THEN [@ EXCEPT !.pc = "done"]
                ELSE IF Head(tipos) \notin handlers
                    THEN [@ EXCEPT !.tipos = Tail(tipos)]
                ELSE [@ EXCEPT !.tipos = Tail(tipos), !.tipo = Head(tipos),
                               !.pc = "flow"]]
    /\ UNCHANGED <<fn, orchestrator, window, animales, eventos, dispatched, faults, persist_log>>

(***************************************************************************)
(* MessageHandler.handle_message_flow(phone, raw, tipo, phone_history),    *)
(* the flow the handlers and the orchestrator above are written against:   *)
(* resolve a pending confirmation first, otherwise analyze and validate.   *)
(***************************************************************************)
\* ConsultaHandler overrides the flow: it only answers with a help text.
\* Every other handler first asks the confirmation manager whether the
\* current message resolves a pending confirmation.
FlowStart(w) ==
    /\ wk[w].pc = "flow"
    /\ LET st == check_confirmation_status(wk[w].msg, wk[w].history) IN
       wk' = [wk EXCEPT ![w] =
                IF @.tipo = "CONSULTA"
                    THEN [Reply(w, "help") EXCEPT !.pc = "next"]
                ELSE IF st.signal = "confirmed"
                    THEN [@ EXCEPT !.status = st, !.pc = "reconstruct"]
                ELSE IF st.signal = "cancelled"
                    THEN [Reply(w, "cancel_ack") EXCEPT
                              !.status = st, !.pc = "clear"]
                ELSE [@ EXCEPT !.status = st, !.pc = "analyze"]]
    /\ UNCHANGED <<fn, orchestrator, window, animales, eventos, dispatched, faults, persist_log>>

\* on confirmed: the owning handler rebuilds the bundle from the stored dict
FlowReconstruct(w, db_ok) ==
    /\ wk[w].pc = "reconstruct"
    /\ Fail(Cost(db_ok))
    /\ LET st == wk[w].status
           res == reconstruct_result(st.tipo, st.detalles_parciales,
                                     animales, db_ok)
       IN wk' = [wk EXCEPT ![w] =
                    [@ EXCEPT !.result = res, !.pc = "save",
                              !.calls = @ \cup
                                 (IF res.detalles = None
                                  THEN {"reconstruct"}
                                  ELSE {"reconstruct", "validate"})]]
    /\ UNCHANGED <<fn, orchestrator, window, animales, eventos, dispatched, persist_log>>

\* ... and its persistence step runs on the rebuilt bundle; success is
\* acknowledged and the pending state cleared, failure leaves it in place
FlowSave(w, a_ok, e_ok) ==
    /\ wk[w].pc = "save"
    /\ LET st == wk[w].status
           res == wk[w].result
           out == save_to_db(st.tipo, res, animales, eventos, a_ok, e_ok)
       IN IF ~res.ok
            THEN /\ a_ok /\ e_ok
                 /\ wk' = [wk EXCEPT ![w] =
                            [Reply(w, "save_error") EXCEPT !.pc = "next"]]
                 /\ UNCHANGED <<fn, orchestrator, animales, eventos, faults, persist_log>>
          ELSE /\ (st.tipo # "NUEVO_RESCATE" => a_ok)
               /\ (~a_ok => e_ok)
               /\ Fail(Cost(a_ok) + Cost(e_ok))
               /\ animales' = out.animales
               /\ eventos' = out.eventos
               /\ persist_log' =
                    Append(persist_log,
                           LogEntry(w, st.tipo, res.detalles, out.ok, FALSE))
               /\ wk' = [wk EXCEPT ![w] =
                          IF out.ok
                            THEN [Reply(w, "success") EXCEPT
                                      !.pc = "clear",
                                      !.calls = @ \cup {"save"}]
                          ELSE [Reply(w, "save_error") EXCEPT
                                      !.pc = "next",
                                      !.calls = @ \cup {"save"}]]
    /\ UNCHANGED <<fn, orchestrator, window, dispatched>>

\* confirmation_manager.clear_pending_confirmation(phone): a failed delete
\* is swallowed
FlowClear(w, db_ok) ==
    /\ wk[w].pc = "clear"
    /\ Fail(Cost(db_ok))
    /\ window' = delete_records_optimized(window, wk[w].phone, db_ok)
    /\ wk' = [wk EXCEPT ![w] = [@ EXCEPT !.pc = "next"]]
    /\ UNCHANGED <<fn, orchestrator, animales, eventos, dispatched, persist_log>>

\* no signal: analyze, validate, then confirmation prompt + pending record
\* (ConfirmationManager.send_confirmation_request), the duplicate-name
\* notice with a purge of the window, or an incomplete request with the
\* missing-fields prompt
FlowAnalyze(w, detalles, db_ok, ins_ok) ==
    /\ wk[w].pc = "analyze"
    /\ detalles \in ExtractOutcomes(wk[w].tipo)
    /\ Fail(Cost(db_ok) + Cost(ins_ok))
    /\ LET tipo == wk[w].tipo
           res == validate(tipo, HandlerResult(FALSE, detalles, <<>>),
                           animales, db_ok)
           called == wk[w].calls \cup {"extract", "validate"}
       IN IF res.ok
            THEN /\ window' = insert_message(window, wk[w].phone,
                                  PendingRecord(tipo, res, wk[w].n), ins_ok)
                 /\ wk' = [wk EXCEPT ![w] =
                            [Reply(w, "confirm_prompt") EXCEPT
                                !.result = res, !.pc = "next",
                                !.calls = called]]
          ELSE IF res.campos_faltantes = <<"nombre_duplicado">>
            THEN /\ window' = delete_records_optimized(window, wk[w].phone,
                                                       ins_ok)
                 /\ wk' = [wk EXCEPT ![w] =
                            [Reply(w, "duplicate_name") EXCEPT
                                !.result = res, !.pc = "next",
                                !.calls = called]]
          ELSE /\ window' = insert_message(window, wk[w].phone,
                                           IncompleteRecord(tipo, res), ins_ok)
               /\ wk' = [wk EXCEPT ![w] =
                          [Reply(w, "missing_fields") EXCEPT
                              !.result = res, !.pc = "next",
                              !.calls = called]]
    /\ UNCHANGED <<fn, orchestrator, animales, eventos, dispatched, persist_log>>

(***************************************************************************)
(* handlers/message_handler.py: MessageProcessorOrchestrator.process_      *)
(* message and MessageHandler.handle_message_flow(phone, raw, tipo).       *)
(***************************************************************************)
\* build_history_conversation and _check_pending_confirmation read the
\* window; the confirmation status decides the branch of process_message.
\* On a cancel signal the acknowledgement is sent and the dispatch returns.
LegacyCheck(w, db_ok) ==
    /\ wk[w].pc = "l_check"
    /\ Fail(Cost(db_ok))
    /\ LET phone_info == IF db_ok THEN window[wk[w].phone] ELSE <<>>
           st == _check_pending_confirmation(wk[w].msg, phone_info)
       IN wk' = [wk EXCEPT ![w] =
                    IF st.signal = "confirmed"
                        THEN [@ EXCEPT !.status = st, !.history = phone_info,
                                       !.pc = "l_save"]
                    ELSE IF st.signal = "cancelled"
                        THEN [Reply(w, "cancel_ack") EXCEPT
                                  !.status = st, !.history = phone_info,
                                  !.pc = "done"]
                    ELSE [@ EXCEPT !.status = st, !.history = phone_info,
                                   !.pc = "l_classify"]]
    /\ UNCHANGED <<fn, orchestrator, window, animales, eventos, dispatched, persist_log>>

\* Faulty variant: a confirmed branch that deletes the window although the
\* persistence step failed
LegacyConfirm_DeletesOnFailure(w) ==
    /\ wk[w].pc = "l_save"
    /\ persist_log' = Append(persist_log,
                             LogEntry(w, wk[w].status.tipo, None, FALSE, TRUE))
    /\ window' = delete_records_optimized(window, wk[w].phone, TRUE)
    /\ wk' = [wk EXCEPT ![w] =
                [Reply(w, "error") EXCEPT !.pc = "done",
                                          !.calls = @ \cup {"save"}]]
    /\ UNCHANGED <<fn, orchestrator, animales, eventos, dispatched, faults>>

\* confirmed branch: result = confirmation_status["result"] is the None
\* placeholder, so handler.save_to_db(result, db) raises on result.detalles
\* and the except clause answers with send_error_response; a tipo without
\* a handler raises in self.handlers[tipo] and ends in the outer error reply
LegacyConfirm(w) ==
    /\ wk[w].pc = "l_save"
    /\ LET st == wk[w].status IN
       IF st.tipo \notin legacy_handlers
          THEN /\ wk' = [wk EXCEPT ![w] =
                          [Reply(w, "error") EXCEPT !.pc = "done"]]
               /\ UNCHANGED persist_log
       ELSE /\ persist_log' =
                 Append(persist_log, LogEntry(w, st.tipo, None, FALSE, TRUE))
            /\ wk' = [wk EXCEPT ![w] =
                       [Reply(w, "error") EXCEPT
                           !.pc = "done", !.calls = @ \cup {"save"}]]
    /\ UNCHANGED <<fn, orchestrator, window, animales, eventos, dispatched, faults>>

\* normal flow: classification.tipo names at most one record type
LegacyClassify(w, tipo, ai_ok) ==
    /\ wk[w].pc = "l_classify"
    /\ Fail(Cost(ai_ok))
    /\ wk' = [wk EXCEPT ![w] =
                IF ~ai_ok
                    THEN [Reply(w, "error") EXCEPT
                              !.pc = "done", !.calls = @ \cup {"classify"}]
                ELSE IF tipo = NULL \/ tipo \notin legacy_handlers
                    THEN [Reply(w, "no_handler") EXCEPT
                              !.pc = "done", !.calls = @ \cup {"classify"}]
                ELSE [@ EXCEPT !.pc = "l_flow", !.tipo = tipo,
                               !.calls = @ \cup {"classify"}]]
    /\ UNCHANGED <<fn, orchestrator, window, animales, eventos, dispatched, persist_log>>

\* Faulty variant: a flow that asks for the missing fields without storing
\* the incomplete request
handle_message_flow_PromptOnly(w, detalles, db_ok, ins_ok) ==
    /\ wk[w].pc = "l_flow"
    /\ detalles \in ExtractOutcomes(wk[w].tipo)
    /\ LET tipo == wk[w].tipo
           res == validate(tipo, HandlerResult(FALSE, detalles, <<>>),
                           animales, db_ok)
           called == wk[w].calls \cup {"extract", "validate"}
       IN IF tipo = "CONSULTA"
            THEN /\ db_ok /\ ins_ok
                 /\ wk' = [wk EXCEPT ![w] =
                            [Reply(w, "help") EXCEPT !.pc = "done"]]
                 /\ UNCHANGED <<window, faults>>
          ELSE IF res.ok
            THEN /\ ins_ok
                 /\ Fail(Cost(db_ok))
                 /\ wk' = [wk EXCEPT ![w] =
                            [Reply(w, "confirm_prompt") EXCEPT
                                !.result = res, !.pc = "done",
                                !.calls = called]]
                 /\ UNCHANGED window
          ELSE /\ Fail(Cost(db_ok) + Cost(ins_ok))
               /\ UNCHANGED window
               /\ wk' = [wk EXCEPT ![w] =
                          [Reply(w, "missing_fields") EXCEPT
                              !.result = res, !.pc = "done",
                              !.calls = called]]
    /\ UNCHANGED <<fn, orchestrator, animales, eventos, dispatched, persist_log>>

\* Faulty variant: a flow in which a failed extraction surfaces as an
\* exception, answered by the error reply
handle_message_flow_RaisesOnNone(w, detalles, db_ok, ins_ok) ==
    \/ /\ detalles = None
       /\ wk[w].pc = "l_flow"
       /\ wk[w].tipo # "CONSULTA"
       /\ db_ok /\ ins_ok
       /\ wk' = [wk EXCEPT ![w] =
                  [Reply(w, "error") EXCEPT
                      !.pc = "done", !.calls = @ \cup {"extract"}]]
       /\ UNCHANGED <<fn, orchestrator, window, animales, eventos,
                      dispatched, faults, persist_log>>
    \/ /\ detalles # None \/ wk[w].tipo = "CONSULTA"
       /\ wk[w].pc = "l_flow"
       /\ detalles \in ExtractOutcomes(wk[w].tipo)
       /\ LET tipo == wk[w].tipo
              res == validate(tipo, HandlerResult(FALSE, detalles, <<>>),
                              animales, db_ok)
              called == wk[w].calls \cup {"extract", "validate"}
          IN IF tipo = "CONSULTA"
               THEN /\ db_ok /\ ins_ok
                    /\ wk' = [wk EXCEPT ![w] =
                               [Reply(w, "help") EXCEPT !.pc = "done"]]
                    /\ UNCHANGED <<window, faults>>
             ELSE IF res.ok
               THEN /\ ins_ok
                    /\ Fail(Cost(db_ok))
                    /\ wk' = [wk EXCEPT ![w] =
                               [Reply(w, "confirm_prompt") EXCEPT
                                   !.result = res, !.pc = "done",
                                   !.calls = called]]
                    /\ UNCHANGED window
             ELSE /\ Fail(Cost(db_ok) + Cost(ins_ok))
                  /\ window' = insert_message(window, wk[w].phone,
                                              IncompleteRecord(tipo, res), ins_ok)
                  /\ wk' = [wk EXCEPT ![w] =
                             [Reply(w, "missing_fields") EXCEPT
                                 !.result = res, !.pc = "done",
                                 !.calls = called]]
       /\ UNCHANGED <<fn, orchestrator, animales, eventos, dispatched, persist_log>>

\* handle_message_flow: analyze -> validate -> confirmation request (only a
\* prompt with buttons) or incomplete request + missing-fields prompt
handle_message_flow(w, detalles, db_ok, ins_ok) ==
    /\ wk[w].pc = "l_flow"
    /\ detalles \in ExtractOutcomes(wk[w].tipo)
    /\ LET tipo == wk[w].tipo
           res == validate(tipo, HandlerResult(FALSE, detalles, <<>>),
                           animales, db_ok)
           called == wk[w].calls \cup {"extract", "validate"}
       IN IF tipo = "CONSULTA"
            THEN /\ db_ok /\ ins_ok
                 /\ wk' = [wk EXCEPT ![w] =
                            [Reply(w, "help") EXCEPT !.pc = "done"]]
                 /\ UNCHANGED <<window, faults>>
          ELSE IF res.ok
            THEN /\ ins_ok
                 /\ Fail(Cost(db_ok))
                 /\ wk' = [wk EXCEPT ![w] =
                            [Reply(w, "confirm_prompt") EXCEPT
                                !.result = res, !.pc = "done",
                                !.calls = called]]
                 /\ UNCHANGED window
          ELSE /\ Fail(Cost(db_ok) + Cost(ins_ok))
               /\ window' = insert_message(window, wk[w].phone,
                                           IncompleteRecord(tipo, res), ins_ok)
               /\ wk' = [wk EXCEPT ![w] =
                          [Reply(w, "missing_fields") EXCEPT
                              !.result = res, !.pc = "done",
                              !.calls = called]]
    /\ UNCHANGED <<fn, orchestrator, animales, eventos, dispatched, persist_log>>

(***************************************************************************)
(* Specifications.                                                         *)
(***************************************************************************)
\* one step of the dispatch worker w is running (or about to start)
StepFor(w, phones) ==
    \/ \E phone \in phones, msg \in DispatchMessages, db_ok \in BOOLEAN :
            Receive(w, phone, msg, db_ok)
    \/ Finish(w)
    \/ \E db_ok \in BOOLEAN : ReadHistory(w, db_ok)
    \/ \E tipos \in ClassifierTipos, ai_ok \in BOOLEAN :
            Classify(w, tipos, ai_ok)
    \/ NextTipo(w)
    \/ FlowStart(w)
    \/ \E db_ok \in BOOLEAN : FlowReconstruct(w, db_ok)
    \/ \E a_ok \in BOOLEAN, e_ok \in BOOLEAN : FlowSave(w, a_ok, e_ok)
    \/ \E db_ok \in BOOLEAN : FlowClear(w, db_ok)
    \/ \E detalles \in ExtractAll, db_ok \in BOOLEAN, ins_ok \in BOOLEAN :
            FlowAnalyze(w, detalles, db_ok, ins_ok)
    \/ \E db_ok \in BOOLEAN : LegacyCheck(w, db_ok)
    \/ LegacyConfirm(w)
    \/ \E tipo \in ClassifierTipo, ai_ok \in BOOLEAN :
            LegacyClassify(w, tipo, ai_ok)
    \/ \E detalles \in ExtractAll, db_ok \in BOOLEAN, ins_ok \in BOOLEAN :
            handle_message_flow(w, detalles, db_ok, ins_ok)

Step(w) == StepFor(w, Phones)

\* Spec: the sender's messages are dispatched one after the other, and a
\* call to the store or to a capability may fail.
Next == Step(1)

Spec == Init /\ [][Next]_vars

\* SpecRace: the sender has been asked to confirm (or to complete) a
\* request, and the next messages are dispatched concurrently by
\* independent workers; no call fails.
AskedWindows ==
    IF orchestrator = "current"
        THEN { << Stored(Msg("text", TxtPerro, NULL)),
                  PendingRecord(tipo,
                      validate(tipo, HandlerResult(FALSE, d, <<>>),
                               <<RockyRow>>, TRUE), 1) >> :
               tipo \in {"NUEVO_RESCATE"},
               d \in { NuevoRescateDetails("Luna", <<"negro">>, "buena") } }
    ELSE { << Stored(Msg("text", TxtPerro, NULL)),
              IncompleteRecord("NUEVO_RESCATE",
                  validate("NUEVO_RESCATE",
                           HandlerResult(FALSE,
                               NuevoRescateDetails("Luna", <<>>, NULL), <<>>),
                           <<RockyRow>>, TRUE)) >> }

InitRace ==
    /\ orchestrator \in Orchestrators
    /\ window \in [Phones -> AskedWindows]
    /\ animales = <<RockyRow>>
    /\ eventos = <<>>
    /\ wk = [w \in Workers |-> Idle]
    /\ dispatched = 1
    /\ faults = MaxFaults
    /\ persist_log = <<>>
    /\ fn = FnIdle

NextRace == \E w \in Workers : Step(w)

SpecRace == InitRace /\ [][NextRace]_vars

\* SpecTwo: two senders.  The first has been asked to confirm (or to
\* complete) a request, the second has said nothing yet; their next
\* messages are dispatched concurrently by independent workers over the
\* same tables; no call fails.
InitTwo ==
    /\ orchestrator \in Orchestrators
    /\ window \in { [p \in Senders |-> IF p = "p1" THEN asked ELSE <<>>] :
                       asked \in AskedWindows }
    /\ animales = <<RockyRow>>
    /\ eventos = <<>>
    /\ wk = [w \in Workers |-> Idle]
    /\ dispatched = 1
    /\ faults = MaxFaults
    /\ persist_log = <<>>
    /\ fn = FnIdle

NextTwo == \E w \in Workers : StepFor(w, Senders)

SpecTwo == InitTwo /\ [][NextTwo]_vars

(***************************************************************************)
(* SpecFn: single operations of the confirmation manager and of the        *)
(* handlers, applied to inputs the initial state draws.                    *)
(*   - a valid bundle is serialised into a pending_confirmation record,    *)
(*     the entity store may change, and the bundle is rebuilt from the     *)
(*     record;                                                             *)
(*   - an inbound message is run through the two confirmation detectors    *)
(*     against a window that holds a stored request.                       *)
(***************************************************************************)
\* item lists of an expense: complete items, and items whose amount,
\* category or description is absent, zero or empty
GastoItemsIn ==
    LET good == GastoItem(Num(100), Num(3), "alimento")
        good2 == GastoItem(Num(50), Num(1), "vacuna")
    IN { <<>>, <<good>>, <<good, good2>>,
         <<GastoItem(None, Num(3), "alimento")>>,
         <<GastoItem(Num(0), Num(3), "alimento")>>,
         <<GastoItem(Num(100), None, "alimento")>>,
         <<GastoItem(Num(100), Num(3), NULL)>>,
         <<GastoItem(Num(100), Num(3), "")>>,
         <<good, GastoItem(Num(100), None, NULL)>>,
         <<GastoItem(None, Num(3), "alimento"), good,
           GastoItem(Num(100), Num(3), NULL)>> }

\* bundles handed to validate
BundlesIn ==
    { [tipo |-> "NUEVO_RESCATE", detalles |-> NuevoRescateDetails(n, c, h)] :
        n \in {"Luna", "Rocky", "rocky", NULL},
        c \in {<<"negro">>, <<"negro", "blanco">>, <<>>},
        h \in {"buena", "", NULL} }
    \cup
    { [tipo |-> "CAMBIO_ESTADO", detalles |-> CambioEstadoDetails(n, e, NoId)] :
        n \in {"rocky", "Rocky", "Luna", NULL}, e \in {NoId, 2, 5} }
    \cup
    { [tipo |-> "GASTO", detalles |-> GastoDetails(items)] :
        items \in GastoItemsIn }

\* windows that hold a stored request of either kind
SampleResult(tipo, d) == validate(tipo, HandlerResult(FALSE, d, <<>>),
                                  <<RockyRow>>, TRUE)

WindowsIn ==
    LET m == Stored(Msg("text", TxtPerro, NULL))
        pc == PendingRecord("NUEVO_RESCATE",
                  SampleResult("NUEVO_RESCATE",
                      NuevoRescateDetails("Luna", <<"negro">>, "buena")), 1)
        ir == IncompleteRecord("NUEVO_RESCATE",
                  SampleResult("NUEVO_RESCATE",
                      NuevoRescateDetails("Luna", <<>>, NULL)))
    IN { <<m>>, <<m, pc>>, <<m, ir>>, <<m, ir, m, pc>>, <<m, pc, m, ir>> }

\* Stored dictionaries as the generic message store can hand them back:
\* the serialised bundle, the same with a key removed, with a required
\* value nulled, with an unknown key added, a partial dictionary, and {}.
Without(d, key) == [k \in (DOMAIN d) \ {key} |-> d[k]]

With(d, key, v) == [k \in (DOMAIN d) \cup {key} |-> IF k = key THEN v ELSE d[k]]

DictsIn ==
    LET nr == ToDict(NuevoRescateDetails("Luna", <<"negro">>, "buena"))
        ce == ToDict(CambioEstadoDetails("Rocky", 2, 1))
    IN { nr, ce, EmptyDict,
         Without(nr, "edad"), Without(nr, "cambio_estado"),
         Without(nr, "nombre"), With(nr, "edad", NULL),
         With(nr, "cambio_estado", None), With(nr, "nota", "x"),
         ToDictExcludeNone(NuevoRescateDetails("Luna", <<"negro">>, NULL)),
         Without(ce, "persona"), Without(ce, "animal_id"),
         With(ce, "estado_id", NoId), With(ce, "nota", "x") }

RecordsIn ==
    { [PendingRecord(tipo, HandlerResult(TRUE, None, <<>>), 1)
          EXCEPT !.detalles_parciales = d] :
        tipo \in {"NUEVO_RESCATE", "CAMBIO_ESTADO"}, d \in DictsIn }

(***************************************************************************)
(* ConversationBuilder.  A text is a sequence of tokens whose concatenation *)
(* is the Python string: message bodies are sequences of characters, the   *)
(* fixed pieces of the context block and the rendered values are one token *)
(* each, and "\n" is the newline character.                                *)
(***************************************************************************)
\* an image or audio entry of the window; caption <<>> is an image without
\* caption; transcription is what the speech service answers for the audio
MediaMsg(type, media_id, caption, transcription) ==
    [type |-> type, body |-> <<>>, button |-> NULL, media_id |-> media_id,
     caption |-> caption, transcription |-> transcription]

\* sep.join(parts)
RECURSIVE Join(_, _)
Join(sep, parts) ==
    IF parts = <<>> THEN <<>>
    ELSE IF Len(parts) = 1 THEN parts[1]
    ELSE parts[1] \o sep \o Join(sep, Tail(parts))

\* json.dumps(detalles, ensure_ascii=False): one token that renders the value
json_dumps(detalles) == ToString(detalles)

\* ConversationBuilder._process_audio: the transcription, "" when the
\* download or the transcription raises
_process_audio(audio_msg, audio_ok) ==
    IF audio_ok THEN audio_msg.transcription ELSE <<>>

\* ConversationBuilder._build_incomplete_context
_build_incomplete_context(msg) ==
    <<"\n", "[SOLICITUD ANTERIOR: ", msg.tipo_solicitud, " - INCOMPLETA]",
      "\n", "Datos ya proporcionados: ", json_dumps(msg.detalles_parciales),
      "\n", "Campos faltantes: ">>
    \o Join(<<", ">>, [k \in 1..Len(msg.campos_faltantes) |->
                          <<msg.campos_faltantes[k]>>])
    \o <<"\n">>

\* the loop of build_raw_content from entry i on: the parts appended to
\* text_parts, in order
RECURSIVE text_parts(_, _, _)
text_parts(phone_history, i, audio_ok) ==
    IF i > Len(phone_history) THEN <<>>
    ELSE LET msg == phone_history[i]
             rest == text_parts(phone_history, i + 1, audio_ok)
         IN IF msg.type = "text" THEN <<msg.body>> \o rest
            ELSE IF msg.type = "image" THEN <<msg.caption>> \o rest
            ELSE IF msg.type = "audio"
                THEN <<_process_audio(msg, audio_ok[i])>> \o rest
            ELSE IF msg.type = "incomplete_request"
                THEN <<_build_incomplete_context(msg)>> \o rest
            ELSE rest

\* faulty variant of the loop: a pending confirmation is rendered as context
\* like an incomplete request
RECURSIVE text_parts_KeepsPending(_, _, _)
text_parts_KeepsPending(phone_history, i, audio_ok) ==
    IF i > Len(phone_history) THEN <<>>
    ELSE LET msg == phone_history[i]
             rest == text_parts_KeepsPending(phone_history, i + 1, audio_ok)
         IN IF msg.type = "text" THEN <<msg.body>> \o rest
            ELSE IF msg.type = "image" THEN <<msg.caption>> \o rest
            ELSE IF msg.type = "audio"
                THEN <<_process_audio(msg, audio_ok[i])>> \o rest
            ELSE IF msg.type \in {"incomplete_request", "pending_confirmation"}
                THEN <<_build_incomplete_context(msg)>> \o rest
            ELSE rest

\* the images list: one element per image entry, in order
RECURSIVE image_parts(_, _)
image_parts(phone_history, i) ==
    IF i > Len(phone_history) THEN <<>>
    ELSE IF phone_history[i].type = "image"
        THEN <<phone_history[i].media_id>> \o image_parts(phone_history, i + 1)
    ELSE image_parts(phone_history, i + 1)

RawContent(phone, text, images) ==
    [raised |-> FALSE, phone |-> phone, text |-> text, images |-> images]

\* _process_image has no handler of its own: a failed download leaves
\* build_raw_content by exception
RawContentRaised == [raised |-> TRUE, phone |-> NULL, text |-> <<>>,
                     images |-> <<>>]

build_raw_content_KeepsPending(phone, phone_history, img_ok, audio_ok) ==
    IF \E i \in 1..Len(phone_history) :
            phone_history[i].type = "image" /\ ~img_ok[i]
        THEN RawContentRaised
    ELSE RawContent(phone,
                    Join(<<"\n">>,
                         text_parts_KeepsPending(phone_history, 1, audio_ok)),
                    image_parts(phone_history, 1))

\* ConversationBuilder.build_raw_content
build_raw_content(phone, phone_history, img_ok, audio_ok) ==
    IF \E i \in 1..Len(phone_history) :
            phone_history[i].type = "image" /\ ~img_ok[i]
        THEN RawContentRaised
    ELSE RawContent(phone,
                    Join(<<"\n">>, text_parts(phone_history, 1, audio_ok)),
                    image_parts(phone_history, 1))

\* the entries a window can hold and the windows built from them
HistoryEntriesIn ==
    { Msg("text", TxtPerro, NULL),
      Msg("text", <<>>, NULL),
      Msg("interactive", <<>>, "confirm_yes"),
      MediaMsg("image", 1, TxtSi, <<>>),
      MediaMsg("image", 2, <<>>, <<>>),
      MediaMsg("audio", 3, <<>>, TxtNo),
      PendingRecord("NUEVO_RESCATE",
          SampleResult("NUEVO_RESCATE",
              NuevoRescateDetails("Luna", <<"negro">>, "buena")), 1),
      IncompleteRecord("NUEVO_RESCATE",
          SampleResult("NUEVO_RESCATE",
              NuevoRescateDetails("Luna", <<>>, NULL))) }

\* results handed to validate: a bundle and the missing-field list the
\* result object carries before the call
ResultsIn ==
    { [tipo |-> b.tipo, result |-> HandlerResult(FALSE, b.detalles, prior)] :
        b \in { [tipo |-> "TRACKING_MOVIMIENTO",
                 detalles |-> TrackingMovimientoDetails(t, "parque", a)] :
                    t \in {"salida", NULL}, a \in {<<"Rocky">>, <<>>} }
              \cup
              { [tipo |-> "VETERINARIA", detalles |-> VeterinariaDetails(i)] :
                    i \in { <<>>, <<GastoItem(Num(100), Num(3), "consulta")>>,
                            <<GastoItem(None, Num(3), "consulta")>> } }
              \cup
              { [tipo |-> "NUEVO_RESCATE",
                 detalles |-> NuevoRescateDetails(n, <<"negro">>, h)] :
                    n \in {"Luna", "Rocky"}, h \in {"buena", NULL} }
              \cup
              { [tipo |-> "CAMBIO_ESTADO",
                 detalles |-> CambioEstadoDetails(n, 2, NoId)] :
                    n \in {"Rocky", "Luna", NULL} }
              \cup
              { [tipo |-> "GASTO", detalles |-> GastoDetails(items)] :
                    items \in GastoItemsIn },
        prior \in {<<>>, <<"edad">>} }

\* status changes handed to the flow and the animal tables they meet
StatusChangesIn ==
    { [detalles |-> CambioEstadoDetails(n, e, NoId), rows |-> t] :
        n \in {"rocky", "Rocky", "Luna", "", NULL}, e \in {NoId, 2},
        t \in { <<>>,
                <<[id |-> 1, nombre |-> "Rocky", activo |-> TRUE]>>,
                <<[id |-> 1, nombre |-> "Rocky", activo |-> FALSE]>>,
                <<[id |-> 1, nombre |-> "Rocky", activo |-> FALSE],
                  [id |-> 2, nombre |-> "Luna", activo |-> TRUE]>>,
                <<[id |-> 1, nombre |-> "Rocky", activo |-> TRUE],
                  [id |-> 2, nombre |-> "Rocky", activo |-> FALSE]>> } }

\* inbound messages a webhook can deliver twice
InboundIn ==
    { Msg("text", TxtPerro, NULL), Msg("text", TxtSi, NULL),
      Msg("interactive", <<>>, "confirm_yes") }

HistoriesIn ==
    UNION { [1..n -> HistoryEntriesIn] : n \in 1..MaxHist }

\* expense items that passed validation and the animal tables they are
\* allocated against (Luna is in none of them)
ExpenseItemsIn ==
    { [GastoItem(Num(m), Num(c), "compra") EXCEPT !.nombre_animal = n] :
        m \in {100, 300}, c \in {1, 2}, n \in {NULL, "", "Rocky", "Luna"} }

AnimalTablesIn ==
    { <<>>,
      <<AnimalRow(1, "Rocky", TRUE, FALSE)>>,
      <<AnimalRow(1, "Rocky", TRUE, TRUE)>>,
      <<AnimalRow(1, "Rocky", TRUE, TRUE), AnimalRow(2, "Toto", TRUE, TRUE),
        AnimalRow(3, "Mimi", TRUE, TRUE)>> }

ExpensesIn ==
    { <<item>> : item \in ExpenseItemsIn }
    \cup { <<[GastoItem(Num(300), Num(2), "alimento")
                  EXCEPT !.nombre_animal = "Rocky"],
             GastoItem(Num(100), Num(1), "vacuna")>> }

InitFn ==
    /\ orchestrator = "current"
    /\ window = [p \in Phones |-> <<>>]
    /\ animales = <<RockyRow>>
    /\ eventos = <<>>
    /\ wk = [w \in Workers |-> Idle]
    /\ dispatched = 0
    /\ faults = 0
    /\ persist_log = <<>>
    /\ fn \in { [stage |-> "bundle", tipo |-> b.tipo, detalles |-> b.detalles] :
                    b \in BundlesIn }
         \cup { [stage |-> "message", msg |-> m, history |-> h] :
                    m \in InboundMessages, h \in WindowsIn }
         \cup { [stage |-> "record", record |-> r] : r \in RecordsIn }
         \cup { [stage |-> "expense", items |-> e, an |-> t] :
                    e \in ExpensesIn, t \in AnimalTablesIn }
         \cup { [stage |-> "history", history |-> h] : h \in HistoriesIn }
         \cup { [stage |-> "result", tipo |-> r.tipo, result |-> r.result] :
                    r \in ResultsIn }
         \cup { [stage |-> "inbound", msg |-> m, deliveries |-> 0,
                  written |-> 0] : m \in InboundIn }
         \cup { [stage |-> "status", detalles |-> c.detalles,
                  rows |-> c.rows] : c \in StatusChangesIn }

\* validate (db_ok: the name lookup it makes is answered by the store),
\* and for a valid bundle ConfirmationManager.
\* _save_pending_confirmation: the record goes into the sender's window
ValidateAndSavePending(phone, db_ok) ==
    /\ fn.stage = "bundle"
    /\ LET result == validate(fn.tipo, HandlerResult(FALSE, fn.detalles, <<>>),
                              animales, db_ok)
       IN IF result.ok
            THEN /\ window' = insert_message(window, phone,
                                  PendingRecord(fn.tipo, result, 1), TRUE)
                 /\ fn' = [stage |-> "stored", tipo |-> fn.tipo,
                           result |-> result, detalles |-> fn.detalles,
                           rows |-> animales, db_ok |-> db_ok]
          ELSE /\ fn' = [stage |-> "invalid", tipo |-> fn.tipo,
                         result |-> result, detalles |-> fn.detalles,
                         rows |-> animales, db_ok |-> db_ok]
               /\ UNCHANGED window
    /\ UNCHANGED <<orchestrator, animales, eventos, wk, dispatched, faults,
                   persist_log>>

\* Between the prompt and the answer another rescue of an existing name
\* reaches the store: two confirmations of one name that run concurrently
\* both pass the name check before either inserts.
OtherRescueSaved(nombre) ==
    /\ fn.stage = "stored"
    /\ Len(animales) < MaxRows
    /\ \E i \in 1..Len(animales) : NameKey(animales[i].nombre) = NameKey(nombre)
    /\ animales' = Append(animales, [id |-> Len(animales) + 1,
                                     nombre |-> nombre, activo |-> TRUE])
    /\ UNCHANGED <<orchestrator, window, eventos, wk, dispatched, faults,
                   persist_log, fn>>

\* the handler's reconstruct_result on the stored record
Rebuild(phone, db_ok) ==
    /\ fn.stage = "stored"
    /\ LET pending == _get_pending_request(window[phone]) IN
       fn' = [stage |-> "rebuilt", tipo |-> fn.tipo, result |-> fn.result,
              record |-> pending,
              rebuilt |-> reconstruct_result(pending.tipo_solicitud,
                              pending.detalles_parciales, animales, db_ok)]
    /\ UNCHANGED <<orchestrator, window, animales, eventos, wk, dispatched,
                   faults, persist_log>>

\* check_confirmation_status and _check_pending_confirmation on a message
Detect ==
    /\ fn.stage = "message"
    /\ fn' = [stage |-> "detected", msg |-> fn.msg, history |-> fn.history,
              status |-> check_confirmation_status(fn.msg, fn.history),
              legacy_status |->
                  _check_pending_confirmation(fn.msg, fn.history)]
    /\ UNCHANGED <<orchestrator, window, animales, eventos, wk, dispatched,
                   faults, persist_log>>

\* a pending confirmation as the store keeps it for the sender
KeepRecord(phone) ==
    /\ fn.stage = "record"
    /\ window' = insert_message(window, phone, fn.record, TRUE)
    /\ fn' = [stage |-> "kept", record |-> fn.record]
    /\ UNCHANGED <<orchestrator, animales, eventos, wk, dispatched, faults,
                   persist_log>>

\* on a confirmed answer: reconstruct_result of the record's handler on the
\* dictionary read back from the window
Reconstruct(phone, db_ok) ==
    /\ fn.stage = "kept"
    /\ LET pending == _get_pending_request(window[phone]) IN
       fn' = [stage |-> "reconstructed", record |-> pending,
              rebuilt |-> reconstruct_result(pending.tipo_solicitud,
                              pending.detalles_parciales, animales, db_ok)]
    /\ UNCHANGED <<orchestrator, window, animales, eventos, wk, dispatched,
                   faults, persist_log>>

\* the handler's save_to_db invoked on what was rebuilt
Persist(a_ok, e_ok) ==
    /\ fn.stage = "reconstructed"
    /\ LET out == save_to_db(fn.record.tipo_solicitud, fn.rebuilt,
                             animales, eventos, a_ok, e_ok)
       IN /\ animales' = out.animales
          /\ eventos' = out.eventos
          /\ fn' = [stage |-> "persisted", record |-> fn.record,
                    rebuilt |-> fn.rebuilt, saved |-> out.ok,
                    rows |-> animales, events |-> eventos]
    /\ UNCHANGED <<orchestrator, window, wk, dispatched, faults, persist_log>>

\* _allocate_gasto_to_animals on the first item of a saved expense, with no
\* share stored before the call
Allocate(name_ok, ins_ok) ==
    /\ fn.stage = "expense"
    /\ fn' = [stage |-> "allocated", item |-> fn.items[1], an |-> fn.an,
              shares |-> <<>>, name_ok |-> name_ok, ins_ok |-> ins_ok,
              out |-> _allocate_gasto_to_animals(<<>>, 1, fn.items[1], fn.an,
                                                 name_ok, ins_ok)]
    /\ UNCHANGED <<orchestrator, window, animales, eventos, wk, dispatched,
                   faults, persist_log>>

\* GastoHandler.save_to_db on the validated expense
SaveExpense(g_ok, lid_ok, name_ok, ins_ok) ==
    /\ fn.stage = "expense"
    /\ fn' = [stage |-> "expense_saved", items |-> fn.items, an |-> fn.an,
              g_ok |-> g_ok,
              out |-> GastoSave(HandlerResult(TRUE, GastoDetails(fn.items),
                                              <<>>),
                                <<>>, <<>>, fn.an, g_ok, lid_ok, name_ok,
                                ins_ok)]
    /\ UNCHANGED <<orchestrator, window, animales, eventos, wk, dispatched,
                   faults, persist_log>>

\* the webhook delivers the message held in fn (again, when it was delivered
\* before) and the orchestrator buffers it
Deliver(phone, db_ok) ==
    /\ fn.stage = "inbound"
    /\ fn.deliveries < MaxDeliveries
    /\ window' = _add_to_conversation(window, phone, fn.msg, db_ok)
    /\ fn' = [fn EXCEPT !.deliveries = @ + 1,
                        !.written = IF db_ok THEN @ + 1 ELSE @]
    /\ UNCHANGED <<orchestrator, animales, eventos, wk, dispatched, faults,
                   persist_log>>

\* the window is read back and merged into the request text
ReadMerged(phone) ==
    /\ fn.stage = "inbound"
    /\ fn.deliveries > 0
    /\ window[phone] # <<>>
    /\ fn' = [stage |-> "merged", msg |-> fn.msg,
              deliveries |-> fn.deliveries, written |-> fn.written,
              raw |-> build_raw_content(phone, window[phone],
                                        [i \in 1..MaxHist |-> TRUE],
                                        [i \in 1..MaxHist |-> TRUE])]
    /\ UNCHANGED <<orchestrator, window, animales, eventos, wk, dispatched,
                   faults, persist_log>>

\* validate applied once, applied to its own answer, and applied to the same
\* bundle with an empty missing-field list
Revalidate(db_ok) ==
    /\ fn.stage = "result"
    /\ LET once == HandlerValidate(fn.tipo, fn.result, animales, db_ok) IN
       fn' = [stage |-> "revalidated", tipo |-> fn.tipo, result |-> fn.result,
              db_ok |-> db_ok,
              once |-> once,
              twice |-> HandlerValidate(fn.tipo, once, animales, db_ok),
              fresh |-> HandlerValidate(fn.tipo,
                            HandlerResult(FALSE, fn.result.detalles, <<>>),
                            animales, db_ok)]
    /\ UNCHANGED <<orchestrator, window, animales, eventos, wk, dispatched,
                   faults, persist_log>>

\* handle_message_flow of the status-change handler after analyze: validate,
\* then the confirmation prompt for an ok result and the missing-fields
\* prompt otherwise
StatusChangeFlow(db_ok) ==
    /\ fn.stage = "status"
    /\ LET result == HandlerValidate("CAMBIO_ESTADO",
                          HandlerResult(FALSE, fn.detalles, <<>>),
                          fn.rows, db_ok)
       IN fn' = [stage |-> "status_answered", detalles |-> fn.detalles,
                 rows |-> fn.rows, db_ok |-> db_ok, result |-> result,
                 reply |-> IF result.ok THEN "confirm_prompt"
                           ELSE "missing_fields"]
    /\ UNCHANGED <<orchestrator, window, animales, eventos, wk, dispatched,
                   faults, persist_log>>

BuildRawContent(phone, img_ok, audio_ok) ==
    /\ fn.stage = "history"
    /\ fn' = [stage |-> "raw", history |-> fn.history, audio_ok |-> audio_ok,
              raw |-> build_raw_content(phone, fn.history, img_ok, audio_ok)]
    /\ UNCHANGED <<orchestrator, window, animales, eventos, wk, dispatched,
                   faults, persist_log>>

NextFn ==
    \/ \E phone \in Phones, db_ok \in BOOLEAN :
            ValidateAndSavePending(phone, db_ok)
    \/ \E nombre \in {"Rocky"} : OtherRescueSaved(nombre)
    \/ \E phone \in Phones, db_ok \in BOOLEAN : Rebuild(phone, db_ok)
    \/ Detect
    \/ \E phone \in Phones : KeepRecord(phone)
    \/ \E phone \in Phones, db_ok \in BOOLEAN : Reconstruct(phone, db_ok)
    \/ \E a_ok \in BOOLEAN, e_ok \in BOOLEAN : Persist(a_ok, e_ok)
    \/ \E name_ok \in BOOLEAN, ins_ok \in [1..MaxActive -> BOOLEAN] :
            Allocate(name_ok, ins_ok)
    \/ \E g_ok \in [1..2 -> BOOLEAN], lid_ok \in BOOLEAN,
          name_ok \in BOOLEAN, ins_ok \in [1..MaxActive -> BOOLEAN] :
            SaveExpense(g_ok, lid_ok, name_ok, ins_ok)
    \/ \E phone \in Phones, img_ok \in [1..MaxHist -> BOOLEAN],
          audio_ok \in [1..MaxHist -> BOOLEAN] :
            BuildRawContent(phone, img_ok, audio_ok)
    \/ \E db_ok \in BOOLEAN : Revalidate(db_ok)
    \/ \E phone \in Phones, db_ok \in BOOLEAN : Deliver(phone, db_ok)
    \/ \E phone \in Phones : ReadMerged(phone)
    \/ \E db_ok \in BOOLEAN : StatusChangeFlow(db_ok)

SpecFn == InitFn /\ [][NextFn]_vars

(***************************************************************************)
(* The message table itself (services/postgres.py): one table of rows      *)
(* [phone, timestamp, type] shared by every sender, written by the         *)
(* orchestrators and the confirmation manager and read through             *)
(* search_phone_in_whatsapp_sheet.  Time is counted in minutes of          *)
(* Argentina local time; fn holds the clock, the table and the last read.  *)
(***************************************************************************)
\* interval '5 minutes'
\* the rows of a query answer
RowsOf(seq) == {seq[i] : i \in 1..Len(seq)}

Horizon == 5

\* Minutes by which the clock a writer stamps with runs ahead of Argentina
\* local time: _add_to_conversation of MessageProcessorOrchestrator and
\* _save_pending_confirmation stamp with Argentina time, the writers of
\* message_handler.py with the server's datetime.now() (a server on UTC is
\* 180 minutes ahead).
WriterSkews == {0, 180}

Row(phone, timestamp, type) ==
    [phone |-> phone, timestamp |-> timestamp, type |-> type]

\* a pending_confirmation row: its content is the record type it asks about
PendingRow(phone, timestamp, tipo) ==
    [phone |-> phone, timestamp |-> timestamp, type |-> "pending_confirmation",
     tipo_solicitud |-> tipo, detalles_parciales |-> EmptyDict]

\* ORDER BY timestamp ASC, in the order of a scan in insertion order
RECURSIVE OrderByTimestamp(_)
OrderByTimestamp(rows) ==
    IF rows = <<>> THEN <<>>
    ELSE LET last == rows[Len(rows)]
             rest == OrderByTimestamp(SubSeq(rows, 1, Len(rows) - 1))
         IN SelectSeq(rest, LAMBDA r : r.timestamp <= last.timestamp)
            \o <<last>>
            \o SelectSeq(rest, LAMBDA r : r.timestamp > last.timestamp)

\* Faulty variant: the query without its retention condition
search_phone_in_whatsapp_sheet_NoHorizon(table, phone, now, db_ok) ==
    IF ~db_ok THEN <<>>
    ELSE OrderByTimestamp(SelectSeq(table, LAMBDA r : r.phone = phone))

\* Faulty variant: the retention condition with an interval of five hours
search_phone_in_whatsapp_sheet_FiveHours(table, phone, now, db_ok) ==
    IF ~db_ok THEN <<>>
    ELSE OrderByTimestamp(
             SelectSeq(table, LAMBDA r : r.phone = phone
                                           /\ r.timestamp >= now - 60 * Horizon))

\* SELECT messages FROM whatsapp_messages WHERE phone = %s AND timestamp >=
\* <now in Argentina> - interval '5 minutes' ORDER BY timestamp ASC.
\* No row and a failed query both answer None, shown here as <<>>.
search_phone_in_whatsapp_sheet(table, phone, now, db_ok) ==
    IF ~db_ok THEN <<>>
    ELSE OrderByTimestamp(
             SelectSeq(table, LAMBDA r : r.phone = phone
                                           /\ r.timestamp >= now - Horizon))

\* The stamps are written with a resolution of one second
\* (strftime("%Y-%m-%d %H:%M:%S")) and the query orders by the stamp alone:
\* rows with equal stamps come back in an order the database is free to
\* choose.  The answers a read can give for one sorted result.
TieOrders(rows) ==
    { [i \in 1..Len(rows) |-> rows[p[i]]] : p \in Permutations(1..Len(rows)) }
      \cap { s \in [1..Len(rows) -> RowsOf(rows)] :
                 \A i \in 1..Len(rows) - 1 :
                     s[i].timestamp <= s[i + 1].timestamp }

\* INSERT INTO whatsapp_messages: a failed insert is swallowed
insert_record(table, row, db_ok) == IF db_ok THEN Append(table, row) ELSE table

\* Faulty variant: a delete of the sender's pending confirmations only
delete_rows_PendingOnly(table, phone, db_ok) ==
    IF db_ok
        THEN SelectSeq(table, LAMBDA r : r.phone # phone
                                           \/ r.type # "pending_confirmation")
    ELSE table

\* DELETE FROM whatsapp_messages WHERE phone = %s
delete_rows(table, phone, db_ok) ==
    IF db_ok THEN SelectSeq(table, LAMBDA r : r.phone # phone) ELSE table

\* fn.cleared is the clear made by the last step, if it was one: the sender,
\* what the store answered and the kinds of rows the sender had
NoClear == [phone |-> NULL, ok |-> FALSE, held |-> {}]

\* ConfirmationManager.clear_pending_confirmation: the delete of the sender's
\* rows; nothing is returned and nothing is raised
clear_pending_confirmation(table, phone, db_ok) == delete_rows(table, phone, db_ok)

InitStore ==
    /\ orchestrator = "current"
    /\ window = [p \in Phones |-> <<>>]
    /\ animales = <<RockyRow>>
    /\ eventos = <<>>
    /\ wk = [w \in Workers |-> Idle]
    /\ dispatched = 0
    /\ faults = 0
    /\ persist_log = <<>>
    /\ fn = [stage |-> "table", now |-> 0, table |-> <<>>,
             read |-> <<>>, reader |-> NULL, cleared |-> NoClear]

StoreFrame ==
    UNCHANGED <<orchestrator, window, animales, eventos, wk, dispatched,
                faults, persist_log>>

\* fn.read is the answer of the read made by the last step, if it was one
Tick ==
    /\ fn.now < MaxTime
    /\ fn' = [fn EXCEPT !.now = @ + 1, !.read = <<>>, !.reader = NULL,
                        !.cleared = NoClear]
    /\ StoreFrame

\* _add_to_conversation, _save_pending_confirmation and
\* _add_incomplete_request_to_context: a row stamped with the writer's clock
AddRow(phone, type, skew, db_ok) ==
    /\ Len(fn.table) < MaxTable
    /\ fn' = [fn EXCEPT !.table =
                 insert_record(@, Row(phone, fn.now + skew, type), db_ok),
                        !.read = <<>>, !.reader = NULL, !.cleared = NoClear]
    /\ StoreFrame

\* _save_pending_confirmation: stamped with Argentina time
AddPending(phone, tipo, db_ok) ==
    /\ Len(fn.table) < MaxTable
    /\ fn' = [fn EXCEPT !.table =
                 insert_record(@, PendingRow(phone, fn.now, tipo), db_ok),
                        !.read = <<>>, !.reader = NULL, !.cleared = NoClear]
    /\ StoreFrame

ReadWindow(phone, db_ok) ==
    /\ \E answer \in TieOrders(search_phone_in_whatsapp_sheet(
                                  fn.table, phone, fn.now, db_ok)) :
          fn' = [fn EXCEPT !.read = answer, !.reader = phone,
                           !.cleared = NoClear]
    /\ StoreFrame

\* clear_pending_confirmation(phone)
DeleteRows(phone, db_ok) ==
    /\ fn.table # <<>>
    /\ fn' = [fn EXCEPT !.table = clear_pending_confirmation(@, phone, db_ok),
                        !.read = <<>>, !.reader = NULL,
                        !.cleared =
                            [phone |-> phone, ok |-> db_ok,
                             held |-> { r.type : r \in
                                          { x \in RowsOf(fn.table) :
                                                x.phone = phone } }]]
    /\ StoreFrame

NextStore ==
    \/ Tick
    \/ \E phone \in Senders, type \in {"text"},
          skew \in WriterSkews, db_ok \in BOOLEAN :
            AddRow(phone, type, skew, db_ok)
    \/ \E phone \in Senders, tipo \in {"NUEVO_RESCATE", "GASTO"},
          db_ok \in BOOLEAN : AddPending(phone, tipo, db_ok)
    \/ \E phone \in Senders, db_ok \in BOOLEAN : ReadWindow(phone, db_ok)
    \/ \E phone \in Senders, db_ok \in BOOLEAN : DeleteRows(phone, db_ok)

SpecStore == InitStore /\ [][NextStore]_vars

(***************************************************************************)
(* Properties.                                                             *)
(***************************************************************************)
Entries == {persist_log[i] : i \in 1..Len(persist_log)}

C2_AtMostOnePersistence ==
    \A i, j \in 1..Len(persist_log) :
        ( /\ persist_log[i].ok /\ persist_log[j].ok
          /\ persist_log[i].pending # None
          /\ persist_log[i].pending = persist_log[j].pending )
        => persist_log[i].n = persist_log[j].n

\* C3: a dispatch that resolves a confirm/cancel handshake has consulted
\* neither the classifier nor the extractor.
C3_ShortCircuit ==
    \A w \in Workers :
        wk[w].status.signal \in {"confirmed", "cancelled"}
            => wk[w].calls \cap {"classify", "extract"} = {}

\* the stored request a dispatch found awaiting the sender's answer
PendingOf(w) ==
    IF orchestrator = "current" THEN _get_pending_request(wk[w].history)
    ELSE LastOfType(wk[w].history, Len(wk[w].history), "incomplete_request")

InWindow(phone, record) ==
    \E i \in 1..Len(window[phone]) : window[phone][i] = record

\* C4: once a dispatch has resolved a cancel signal, the request it
\* cancelled is no longer in the sender's window and the dispatch has
\* persisted nothing.
C4_CancelClears ==
    \A w \in Workers :
        (wk[w].pc = "done" /\ wk[w].status.signal = "cancelled")
            => /\ ~InWindow(wk[w].phone, PendingOf(w))
               /\ "save" \notin wk[w].calls

\* what a successful persistence was handed is the bundle the dispatch
\* resolved, and the dispatch has acknowledged it with the success message
PersistedFromPending ==
    /\ \A e \in Entries :
            e.ok => /\ e.signal = "confirmed"
                    /\ e.detalles # None
                    /\ ToDict(e.detalles) = e.resolved
    /\ \A w \in Workers :
            (wk[w].pc = "clear" /\ wk[w].status.signal = "confirmed")
                => /\ "save" \in wk[w].calls
                   /\ wk[w].replies[Len(wk[w].replies)] = "success"

\* the step by which worker w leaves the clearing of a confirmed request
ClearsConfirmed(w) ==
    /\ wk[w].pc = "clear"
    /\ wk[w].status.signal = "confirmed"
    /\ wk'[w].pc # "clear"

PersistenceFails(w) ==
    /\ wk[w].pc \in {"save", "l_save"}
    /\ Len(persist_log') = Len(persist_log) + 1
    /\ ~persist_log'[Len(persist_log')].ok

C8_NoRevalidation ==
    /\ \A e \in Entries :
            e.signal = "confirmed"
                => e.detalles # None /\ ToDict(e.detalles) = e.resolved
    /\ \A w \in Workers :
            wk[w].status.signal = "confirmed"
                => wk[w].calls \cap {"extract", "validate"} = {}

HasRecord(history, type) == LastOfType(history, Len(history), type) # None

\* C10: with a request awaiting the sender's answer, an interactive reply
\* whose button id is confirm_yes is detected as confirmed and one whose id
\* is confirm_no as cancelled, whatever text the message carries.  The
\* confirmation manager looks for a pending_confirmation, the orchestrator
\* of message_handler.py for the incomplete_request it keeps in its place.
C10_ButtonsAuthoritative ==
    (fn.stage = "detected" /\ fn.msg.type = "interactive")
        => /\ (HasRecord(fn.history, "pending_confirmation")
                    /\ fn.msg.button = "confirm_yes")
                  => fn.status.signal = "confirmed"
           /\ (HasRecord(fn.history, "pending_confirmation")
                    /\ fn.msg.button = "confirm_no")
                  => fn.status.signal = "cancelled"
           /\ (HasRecord(fn.history, "incomplete_request")
                    /\ fn.msg.button = "confirm_yes")
                  => fn.legacy_status.signal = "confirmed"
           /\ (HasRecord(fn.history, "incomplete_request")
                    /\ fn.msg.button = "confirm_no")
                  => fn.legacy_status.signal = "cancelled"

\* a confirm_yes button whose message carries the text "no" was detected as
\* confirmed by both detectors
C10_Witness ==
    /\ fn.stage = "detected"
    /\ fn.msg.type = "interactive"
    /\ fn.msg.button = "confirm_yes"
    /\ fn.msg.body = TxtNo
    /\ HasRecord(fn.history, "pending_confirmation")
    /\ HasRecord(fn.history, "incomplete_request")
    /\ fn.status.signal = "confirmed"
    /\ fn.legacy_status.signal = "confirmed"

\* the reply text as the keyword rules read it, and the two rules: the text
\* equals a keyword of the list or starts with one followed by a space
Trimmed(msg) == Strip(Lower(msg.body))

KeywordMatch(text, lst) == InList(text, lst) \/ StartsWithWord(text, lst)

\* C11: with a request awaiting the sender's answer, a free-text reply that
\* (lower-cased and trimmed) equals a negative keyword or starts with one
\* followed by a space is detected as cancelled, and a reply that contains
\* a negative keyword only elsewhere is not detected as cancelled; for the
\* confirmation manager and for the orchestrator of message_handler.py.
C11_NegativeReplyCancels ==
    (fn.stage = "detected" /\ fn.msg.type = "text")
        => LET text == Trimmed(fn.msg)
               keyword == KeywordMatch(text, cancelacion)
               elsewhere == ~keyword /\ ContainsAny(text, cancelacion)
           IN /\ HasRecord(fn.history, "pending_confirmation")
                    => /\ keyword => fn.status.signal = "cancelled"
                       /\ elsewhere => fn.status.signal # "cancelled"
              /\ HasRecord(fn.history, "incomplete_request")
                    => /\ keyword => fn.legacy_status.signal = "cancelled"
                       /\ elsewhere => fn.legacy_status.signal # "cancelled"

\* C12: a free-text reply is detected as confirmed only if (lower-cased and
\* trimmed) it equals an affirmative keyword or starts with one followed by
\* a space; for the confirmation manager and for the orchestrator of
\* message_handler.py.
C12_ConfirmedOnlyByKeyword ==
    (fn.stage = "detected" /\ fn.msg.type = "text")
        => LET keyword == KeywordMatch(Trimmed(fn.msg), confirmacion)
           IN /\ fn.status.signal = "confirmed" => keyword
              /\ fn.legacy_status.signal = "confirmed" => keyword

\* the stored request a dispatch answers to: the pending_confirmation for
\* the confirmation manager, the incomplete_request the orchestrator of
\* message_handler.py keeps in its place
AwaitsAnswer(w) ==
    /\ wk[w].history # <<>>
    /\ HasRecord(wk[w].history,
                 IF orchestrator = "current" THEN "pending_confirmation"
                 ELSE "incomplete_request")

MatchesNeither(msg) ==
    /\ msg.type = "text"
    /\ ~KeywordMatch(Trimmed(msg), confirmacion)
    /\ ~KeywordMatch(Trimmed(msg), cancelacion)

Resolved(w) ==
    \/ wk[w].status.signal = "cancelled"
    \/ /\ wk[w].status.signal = "confirmed"
       /\ \E e \in Entries : e.n = wk[w].n /\ e.ok

\* C14: when a dispatch that resolved a handshake (cancel, or confirm with
\* successful persistence) has ended, the sender's window holds neither a
\* pending_confirmation nor an incomplete_request record.
C14_ResolvedLeavesNoContext ==
    \A w \in Workers :
        (wk[w].pc = "done" /\ Resolved(w))
            => /\ ~HasRecord(window[wk[w].phone], "pending_confirmation")
               /\ ~HasRecord(window[wk[w].phone], "incomplete_request")

LastReply(w) == wk[w].replies[Len(wk[w].replies)]

\* C15: once validation of a new-rescue bundle has reported a duplicate
\* name, the dispatch has answered with the duplicate-name notice, not with
\* the missing-fields prompt, and the sender's window holds no
\* incomplete_request.
C15_DuplicateNamePurges ==
    \A w \in Workers :
        ( /\ wk[w].pc \in {"next", "done"}
          /\ wk[w].tipo = "NUEVO_RESCATE"
          /\ wk[w].result.campos_faltantes = <<"nombre_duplicado">> )
            => /\ LastReply(w) = "duplicate_name"
               /\ ~HasRecord(window[wk[w].phone], "incomplete_request")

\* the bundle handed to validation carries a name, and a row of the entity
\* table has that name up to letter case
HasName(detalles) == detalles.nombre \notin {NULL, ""}

NameTaken(rows, nombre) ==
    \E i \in 1..Len(rows) : NameKey(rows[i].nombre) = NameKey(nombre)

Validated == fn.stage \in {"stored", "invalid"} /\ fn.tipo = "NUEVO_RESCATE"

IsSubseqMember(x, seq) == \E i \in 1..Len(seq) : seq[i] = x

ValidatedAs(tipo) == fn.stage \in {"stored", "invalid"} /\ fn.tipo = tipo

\* the required fields of a new rescue, in the order the code lists them,
\* and the test the claim states: null, or an empty list or string
RequiredOfNuevoRescate ==
    << "nombre", "tipo_animal", "edad", "color_de_pelo",
       "condicion_de_salud_inicial", "ubicacion", "cambio_estado" >>

NullOrEmpty(detalles, k) ==
    IF k = "color_de_pelo" THEN detalles[k] = <<>>
    ELSE IF k = "cambio_estado" THEN detalles[k] = None
    ELSE detalles[k] = NULL \/ detalles[k] = ""

FailingOfNuevoRescate(detalles) ==
    LET Fails(k) == NullOrEmpty(detalles, k)
    IN SelectSeq(RequiredOfNuevoRescate, Fails)

ReportedTaken ==
    /\ HasName(fn.detalles)
    /\ NameTaken(fn.rows, fn.detalles.nombre)
    /\ fn.db_ok

\* an expense item as the claim requires it, and as the code accepts it
ItemNonNull(item) ==
    /\ item.monto # None
    /\ item.categoria_id # None
    /\ ~NullOrEmpty(item, "descripcion")

ItemComplete(item) ==
    /\ ItemNonNull(item)
    /\ item.monto # Num(0)
    /\ item.categoria_id # Num(0)

FailsIncomplete(w) ==
    /\ wk[w].pc \in {"analyze", "l_flow"}
    /\ wk'[w].pc \notin {"analyze", "l_flow"}
    /\ "validate" \in wk'[w].calls
    /\ ~wk'[w].result.ok
    /\ wk'[w].result.campos_faltantes # <<"nombre_duplicado">>

IncompleteWritten(w) ==
    window'[wk[w].phone] =
        Append(window[wk[w].phone],
               IncompleteRecord(wk[w].tipo, wk'[w].result))

NothingCommitted(w) ==
    /\ ~HasRecord(window'[wk[w].phone], "pending_confirmation")
            \/ HasRecord(window[wk[w].phone], "pending_confirmation")
    /\ persist_log' = persist_log
    /\ animales' = animales
    /\ eventos' = eventos

ExtractionFails(w) ==
    /\ wk[w].pc \in {"analyze", "l_flow"}
    /\ wk'[w].pc \notin {"analyze", "l_flow"}
    /\ "extract" \in wk'[w].calls
    /\ wk'[w].result.detalles = None

SchemaMismatch(record) ==
    LET cls == DetailsClass(record.tipo_solicitud)
        d == record.detalles_parciales
    IN \E k \in RequiredFields(cls) : k \notin DOMAIN d \/ IsNoneField(d, k)

C21_EveryDispatchReplies ==
    \A w \in Workers : wk[w].pc = "done" => wk[w].replies # <<>>


\* the step in which worker w gets the classifier's answer
Classified(w) ==
    /\ wk[w].pc \in {"classify", "l_classify"}
    /\ wk'[w].pc # wk[w].pc

\* the step ends the dispatch with one more reply of the given kinds, having
\* called nothing but the classifier and written nothing to any window
StopsWith(w, kinds) ==
    /\ wk'[w].pc = "done"
    /\ Len(wk'[w].replies) = Len(wk[w].replies) + 1
    /\ wk'[w].replies[Len(wk'[w].replies)] \in kinds
    /\ wk'[w].calls \subseteq {"classify"}
    /\ window' = window
    /\ animales' = animales /\ eventos' = eventos

\* C22: when the classifier returns no candidate record type the dispatch
\* sends the could-not-determine-type reply and stops: the handler loop is
\* entered only with at least one candidate, and the step that answers an
\* empty classification invokes no handler and writes no pending
\* confirmation or incomplete request.
C22_NoCandidateIsTerminal ==
    [][\A w \in Workers : Classified(w) =>
          \/ wk'[w].pc = "next" /\ wk'[w].tipos # <<>>
          \/ wk'[w].pc = "l_flow" /\ wk'[w].tipo # NULL
          \/ StopsWith(w, {"no_type", "no_handler", "error"})]_vars

\* a dispatch of the current orchestrator that the classifier answered with
\* no candidate: it is done, its only reply is the could-not-determine-type
\* message, and the window holds nothing but the inbound message
C22_Witness ==
    \E w \in Workers :
        /\ orchestrator = "current"
        /\ wk[w].pc = "done"
        /\ wk[w].replies = <<"no_type">>
        /\ wk[w].calls = {"classify"}
        /\ window[wk[w].phone] = wk[w].history
        /\ ~HasRecord(wk[w].history, "pending_confirmation")
        /\ ~HasRecord(wk[w].history, "incomplete_request")



\* C23: for every sender and at every time, the window read returns no
\* entry whose timestamp is older than the retention horizon (five minutes
\* before the read) and no entry of a different sender.
C23_WindowWithinHorizon ==
    fn.stage = "table" =>
        \A r \in RowsOf(fn.read) :
            /\ r.phone = fn.reader
            /\ r.timestamp >= fn.now - Horizon

\* a read that answered something while the table held a row of
\* the reader stamped before the horizon and a recent row of another sender
C23_Witness ==
    /\ fn.stage = "table"
    /\ fn.read # <<>>
    /\ \E r \in RowsOf(fn.table) :
            r.phone = fn.reader /\ r.timestamp < fn.now - Horizon
    /\ \E r \in RowsOf(fn.table) :
            r.phone # fn.reader /\ r.timestamp >= fn.now - Horizon


Named(item) == item.nombre_animal \notin {NULL, ""}

\* the animal table holds an animal of the name the item gives
FoundByName(item, an) ==
    Named(item) /\ \E i \in 1..Len(an) :
                      NameKey(an[i].nombre) = NameKey(item.nombre_animal)

SharedConsumable(item) == item.categoria_id \in SharedCategories

\* ids of the active animals currently in the refuge
ActiveIds(an) == {an[i].id : i \in {j \in 1..Len(an) :
                                     an[j].activo /\ an[j].refugio}}

Targets(shares) == {shares[i].animal_id : i \in 1..Len(shares)}

Allocated == fn.stage = "allocated"

\* C24: allocation takes its branches in priority order and they exclude
\* one another: an item naming an animal that is found gets exactly one
\* share of the full amount against that animal; otherwise an item of a
\* shared-consumable category is split across the active animals;
\* otherwise no share is created.  An item naming an animal that is not
\* found falls to the second or third branch according to its category.
C24_AllocationBranches ==
    Allocated =>
        LET item == fn.item
            sh == fn.out.shares
        IN IF FoundByName(item, fn.an)
             THEN /\ Len(sh) = 1
                  /\ sh[1].animal_id = FirstMatch(fn.an, 1, item.nombre_animal)
                  /\ sh[1].monto = Quot(item.monto.num, 1)
           ELSE IF SharedConsumable(item)
             THEN /\ Targets(sh) = ActiveIds(fn.an)
                  /\ Len(sh) = Cardinality(ActiveIds(fn.an))
           ELSE sh = <<>>

\* C25: a shared-consumable item with no named animal and n >= 1 active
\* animals gets exactly n shares, one per active animal, each of amount / n,
\* so that the shares add up to the item amount.
C25_EqualSplit ==
    ( /\ Allocated
      /\ ~Named(fn.item)
      /\ SharedConsumable(fn.item)
      /\ ActiveIds(fn.an) # {} )
    => LET n == Cardinality(ActiveIds(fn.an))
           sh == fn.out.shares
       IN /\ Len(sh) = n
          /\ Targets(sh) = ActiveIds(fn.an)
          /\ \A i \in 1..Len(sh) : sh[i].monto = Quot(fn.item.monto.num, n)

\* C26: for a shared-consumable item with no named animal, when there is
\* no active animal, the persistence step that stored the expense row does
\* not report success.
C26_NoActiveIsFailure ==
    ( /\ fn.stage = "expense_saved"
      /\ Len(fn.items) = 1
      /\ ~Named(fn.items[1])
      /\ SharedConsumable(fn.items[1])
      /\ ActiveIds(fn.an) = {}
      /\ fn.g_ok[1] )
    => ~fn.out.ok

\* the item is a general expense: no named animal, not a shared consumable
General(item) == ~Named(item) /\ ~SharedConsumable(item)

\* C27: for a general expense (no named animal, category not a shared
\* consumable) allocation creates no share and reports success: the shares
\* after the call are the shares before it.
C27_GeneralUnallocated ==
    (Allocated /\ General(fn.item))
        => (fn.out.ok /\ fn.out.shares = fn.shares)

\* a general expense was allocated while three active animals were in the
\* refuge
C27_Witness ==
    /\ Allocated
    /\ General(fn.item)
    /\ Cardinality(ActiveIds(fn.an)) = 3
    /\ fn.out.ok


\* the sender whose dispatch worker w runs in this step
ActingPhone(w) == IF wk[w].pc = "idle" THEN wk'[w].phone ELSE wk[w].phone

\* C28: dispatches for two different senders are independent.  Every step
\* taken while processing one sender (append, write of a pending
\* confirmation or incomplete request, clear, purge) leaves the window of
\* every other sender, and with it that sender's pending confirmation and
\* incomplete requests, unchanged.
C28_WindowsIndependent ==
    [][\A w \in Workers : wk'[w] # wk[w] =>
          \A q \in Senders \ {ActingPhone(w)} : window'[q] = window[q]]_vars

\* C28 as claimed: moreover the second sender's outcome is the same as if
\* the first sender's dispatch had not run: what validation answers for
\* its bundle is what it answers against the tables as they were before.
C28_AsClaimed ==
    \A w \in Workers :
        ( /\ wk[w].phone = "p2"
          /\ "validate" \in wk[w].calls
          /\ IsInstance(wk[w].result.detalles, DetailsClass(wk[w].tipo)) )
            => wk[w].result =
                 validate(wk[w].tipo,
                          HandlerResult(FALSE, wk[w].result.detalles, <<>>),
                          <<RockyRow>>, TRUE)

\* the first sender's confirmation has been persisted and its window
\* cleared while a dispatch of the second sender is in flight with its own
\* message in its own window
C28_Witness ==
    \E v, w \in Workers :
        /\ wk[v].phone = "p1" /\ "save" \in wk[v].calls
        /\ window["p1"] = <<>>
        /\ wk[w].phone = "p2" /\ wk[w].pc \notin {"idle", "done"}
        /\ window["p2"] # <<>>

Conversational(history) ==
    { i \in 1..Len(history) :
        history[i].type \in {"text", "image", "audio", "incomplete_request"} }

\* the k-th smallest element of a set of positions
RECURSIVE Nth(_, _)
Nth(positions, k) ==
    LET lo == CHOOSE i \in positions : \A j \in positions : i <= j IN
    IF k = 1 THEN lo ELSE Nth(positions \ {lo}, k - 1)

\* what the entry at position i of the window contributes to the text
Contribution(history, i, audio_ok) ==
    LET e == history[i] IN
    IF e.type = "text" THEN e.body
    ELSE IF e.type = "image" THEN e.caption
    ELSE IF e.type = "audio"
        THEN (IF audio_ok[i] THEN e.transcription ELSE <<>>)
    ELSE _build_incomplete_context(e)

Tokens(text) == { text[k] : k \in 1..Len(text) }

\* C30: the text of the normalized request is the newline-joined sequence of
\* the text bodies, image captions and audio transcriptions of the window,
\* oldest to newest; a pending_confirmation entry contributes nothing; an
\* incomplete_request entry contributes, at its place in the order, a context
\* block that carries its record type, its known fields and its list of
\* missing fields.
C30_TextInWindowOrder ==
    (fn.stage = "raw" /\ ~fn.raw.raised)
        => LET h == fn.history
               pos == Conversational(h)
               parts == [k \in 1..Cardinality(pos) |->
                            Contribution(h, Nth(pos, k), fn.audio_ok)]
           IN /\ fn.raw.text = Join(<<"\n">>, parts)
              /\ \A i \in 1..Len(h) :
                    h[i].type = "incomplete_request"
                        => LET block == Tokens(_build_incomplete_context(h[i]))
                           IN /\ h[i].tipo_solicitud \in block
                              /\ json_dumps(h[i].detalles_parciales) \in block
                              /\ \A k \in 1..Len(h[i].campos_faltantes) :
                                    h[i].campos_faltantes[k] \in block
                              /\ block \subseteq Tokens(fn.raw.text)

\* a request built from a window that holds an incomplete request, then a
\* pending confirmation, then a text
C30_Witness ==
    /\ fn.stage = "raw"
    /\ ~fn.raw.raised
    /\ Len(fn.history) = 3
    /\ fn.history[1].type = "incomplete_request"
    /\ fn.history[2].type = "pending_confirmation"
    /\ fn.history[3].type = "text"
    /\ fn.history[3].body # <<>>
    /\ fn.raw.text = _build_incomplete_context(fn.history[1])
                        \o <<"\n">> \o fn.history[3].body

\* C31: a failure to resolve one image or one audio entry degrades to an
\* empty contribution of that entry only: the build does not abort, and the
\* request it returns carries the contributions of the other entries (every
\* text body and every context block of the window).
C31_MediaFailureDegrades ==
    fn.stage = "raw"
        => /\ ~fn.raw.raised
           /\ \A i \in 1..Len(fn.history) :
                 fn.history[i].type \in {"text", "incomplete_request"}
                    => Tokens(Contribution(fn.history, i, fn.audio_ok))
                          \subseteq Tokens(fn.raw.text)

\* the entries of a window that are the given message
CopiesOf(history, msg) ==
    Cardinality({ i \in 1..Len(history) : history[i] = msg })

\* C32: appending to the message buffer is idempotent: after the same
\* inbound message was appended twice for a sender, the sender's window
\* holds a single entry for it and the merged request text holds its body
\* once.
C32_AppendIdempotent ==
    /\ fn.stage \in {"inbound", "merged"}
          => \A p \in Phones : CopiesOf(window[p], fn.msg) <= 1
    /\ (fn.stage = "merged" /\ fn.msg.type = "text")
          => fn.raw.text = fn.msg.body

\* C33: a failed write of the inbound message is reported to the dispatch and
\* the dispatch does not continue as if the message had been buffered: a
\* dispatch whose append left the window as it was does not go on to read the
\* window and classify.
C33_FailedAppendStops ==
    [][\A w \in Workers :
          ( /\ wk[w].pc = "idle"
            /\ wk'[w].pc # "idle"
            /\ window' = window )
              => wk'[w].pc \notin {"read", "l_check"}]_vars

\* the sender's rows inside the horizon, in the order they were written
WrittenWindow(phone) ==
    SelectSeq(fn.table, LAMBDA r : r.phone = phone
                                     /\ r.timestamp >= fn.now - Horizon)

\* C34: at most one pending confirmation is active per sender: when the
\* window holds several pending_confirmation records, detection selects the
\* most recently written one.
C34_LatestPendingActive ==
    (fn.stage = "table" /\ fn.read # <<>>)
        => _get_pending_request(fn.read)
              = _get_pending_request(WrittenWindow(fn.reader))

\* the step of worker w sends the confirmation prompt
AsksToConfirm(w) ==
    wk'[w].replies = Append(wk[w].replies, "confirm_prompt")

\* C35: whenever the confirmation prompt has been sent to a sender, a
\* pending_confirmation record carrying the record type and the full field
\* bundle (null fields included) is in that sender's window once the call
\* has returned.
C35_AskedImpliesPending ==
    [][\A w \in Workers :
          AsksToConfirm(w)
            => LET h == window'[wk[w].phone] IN
               /\ h # <<>>
               /\ h[Len(h)].type = "pending_confirmation"
               /\ h[Len(h)].tipo_solicitud = wk[w].tipo
               /\ h[Len(h)].detalles_parciales
                     = ToDict(wk'[w].result.detalles)]_vars

\* every pending confirmation the table holds for the sender was stamped
\* before the retention horizon of the present time, and there is one
PendingExpired(phone) ==
    /\ \E r \in RowsOf(fn.table) :
          r.phone = phone /\ r.type = "pending_confirmation"
    /\ \A r \in RowsOf(fn.table) :
          (r.phone = phone /\ r.type = "pending_confirmation")
              => r.timestamp < fn.now - Horizon

\* C36: a confirm reply that arrives after the pending confirmation has
\* fallen outside the retention horizon is not detected as a confirmation:
\* the window read holds no pending confirmation and the status is empty,
\* so the reply is handled as an ordinary message and nothing is persisted.
C36_ExpiredPendingIgnored ==
    (fn.stage = "table" /\ fn.reader # NULL /\ PendingExpired(fn.reader))
        => /\ _get_pending_request(fn.read) = None
           /\ \A msg \in InboundMessages :
                 check_confirmation_status(msg, fn.read) = NoStatus

\* the sender's pending confirmation has expired and the read made now
\* answers the later message of the sender only
C36_Witness ==
    /\ fn.stage = "table"
    /\ fn.reader # NULL
    /\ PendingExpired(fn.reader)
    /\ fn.read # <<>>
    /\ \A r \in RowsOf(fn.read) : r.type = "text"

\* C37: persistence is all-or-nothing per confirmed record: whenever a
\* handler's save_to_db reports failure, no domain row of that record has
\* been written.
C37_AllOrNothing ==
    [][( /\ Len(persist_log') > Len(persist_log)
         /\ ~persist_log'[Len(persist_log')].ok )
           => animales' = animales /\ eventos' = eventos]_vars

\* C38: validation is idempotent and depends only on the field bundle:
\* validate(validate(r)) equals validate(r) in ok and in the missing-field
\* list, and the outcome does not depend on the missing-field list the
\* result carried before the call.
C38_ValidateIdempotent ==
    fn.stage = "revalidated"
        => /\ fn.twice.ok = fn.once.ok
           /\ fn.twice.campos_faltantes = fn.once.campos_faltantes
           /\ fn.once.ok = fn.fresh.ok
           /\ fn.once.campos_faltantes = fn.fresh.campos_faltantes

\* C39: clearing a pending confirmation removes every buffered entry of the
\* sender, whatever its kind and age, so the window read right after the
\* clear is empty for that sender, and the rows of other senders stay; a clear
\* that fails in the store is swallowed and leaves the table as it was.
C39_ClearEmptiesWindow ==
    [][fn'.cleared.phone # NULL
         => IF fn'.cleared.ok
              THEN /\ \A r \in RowsOf(fn'.table) : r.phone # fn'.cleared.phone
                   /\ search_phone_in_whatsapp_sheet(
                          fn'.table, fn'.cleared.phone, fn'.now, TRUE) = <<>>
                   /\ SelectSeq(fn'.table,
                                LAMBDA r : r.phone # fn'.cleared.phone)
                        = SelectSeq(fn.table,
                                    LAMBDA r : r.phone # fn'.cleared.phone)
            ELSE fn'.table = fn.table]_vars

\* a clear has just removed a text and a pending confirmation of the sender
\* while another sender's row stays in the table
C39_Witness ==
    /\ fn.stage = "table"
    /\ fn.cleared.phone # NULL
    /\ fn.cleared.ok
    /\ {"text", "pending_confirmation"} \subseteq fn.cleared.held
    /\ fn.table # <<>>

\* an active animal of that name (compared in lower case) is in the table
ActiveAnimalNamed(rows, nombre) ==
    \E i \in 1..Len(rows) :
        rows[i].activo /\ NameKey(rows[i].nombre) = NameKey(nombre)

====
